---- MODULE Spec2Model ----
(***************************************************************************)
(* A model of the math agent:                                              *)
(*   - MathAgent.solve, the solve / verify / correct loop                  *)
(*     (src/src/math_agent/agent.py), specification Spec;                  *)
(*   - LLMBackend.generate, the retry wrapper around a provider call       *)
(*     (src/src/imo_math_agent/backends/base.py), specification SpecGen;   *)
(*   - parse_verification_response, summarize_verification and the tail    *)
(*     of _verify_solution (src/src/math_agent/verification.py, agent.py), *)
(*     specification SpecParse;                                            *)
(*   - main, the outer attempt loop around solve, with the frozen          *)
(*     AgentConfig (src/src/math_agent/cli.py, config.py), specification   *)
(*     SpecDriver;                                                         *)
(*   - merge_consecutive, called by the provider adapters                  *)
(*     (src/src/math_agent/backends/openai.py), specification SpecMerge.   *)
(* The texts the classifier reads are sequences of characters; the other   *)
(* texts are opaque values drawn from small sets. None is a value of its   *)
(* own, distinct from the empty text.                                      *)
(***************************************************************************)
EXTENDS Integers, Sequences, FiniteSets, TLC

\* ------------------------------------------------------------ bounds
\* largest required_consecutive_validations of a configuration
MaxRequired == 3
\* largest max_consecutive_errors of a configuration
MaxErrors == 2
\* largest max_verification_iterations / max_iterations
MaxIter == 3
\* largest retry_attempts of a configuration
MaxRetry == 3
\* largest retry_base_delay, in units of time
MaxBaseDelay == 2
\* number of generate calls made on one backend
MaxGenerateCalls == 2
\* largest number of tokens a classified text is made of
MaxTokens == 3
\* --max-runs, the attempts of the outer loop
MaxRuns == 2
\* turns of a conversation
MaxTurns == 3
\* characters of a candidate handed to extract_detailed_solution
MaxChars == 4

\* ------------------------------------------------------------ values
None == "<None>"
\* texts a solver call can return; "" is the empty text
Texts == {"", "s1", "s2"}
\* critique logs the verifier can return
Logs == {"log1", "log2"}
\* answers of the yes/no decision call
DecisionTexts == {<<"Y", "e", "s">>, <<"n", "o">>, <<".">>}
\* the pieces the classified texts are made of
Tokens ==
    {<<"Y", "e", "s">>,
     <<"n", "o">>,
     <<"\n">>,
     <<".">>,
     <<"F", "i", "n", "a", "l", " ", "V", "e", "r", "d", "i", "c", "t", ":", " ", "y", "e", "s">>,
     <<"f", "i", "n", "a", "l", " ", "v", "e", "r", "d", "i", "c", "t", ":", " ", "n", "o">>,
     <<"c", "o", "r", "r", "e", "c", "t", " ">>,
     <<"e", "r", "r", "o", "r", " ">>,
     <<"k", "n", "o", "w">>,
     <<"b", "u", "g", " ", "g", "a", "p", " ", "f", "l", "a", "w", " ">>}
\* verification logs handed to summarize_verification and _verify_solution
LogTexts == {<<>>, <<"l", "o", "g">>}
\* errors a provider call can raise
Errors == {"e1", "e2"}
\* the backends handed to MathAgent
SolverLLM == "solver_llm"
VerifierLLM == "verifier_llm"
\* AgentConfig.solver_temperature and verifier_temperature, in tenths
SolverTemperature == 7
VerifierTemperature == 1
\* texts a provider call can return
ProviderTexts == {"", "t1"}
\* what `raise None` raises (base.py line 52 with last_exception = None)
TypeError == "TypeError: exceptions must derive from BaseException"

VARIABLES
    \* ---- MathAgent.solve
    config,          \* self.config (AgentConfig)
    max_iterations,  \* the argument of solve; 0 stands for None and for 0 (both falsy)
    pc,              \* position of solve
    max_iter,        \* agent.py line 48
    solution,        \* the current candidate
    verification_log,\* local of _verify_solution
    verification,    \* the latest VerificationResult
    correct_count,
    error_count,
    i,               \* number of loop iterations started
    result,          \* the value solve returned
    exit,            \* the return statement solve left through
    calls,           \* the generation calls issued so far, in order
    rounds,          \* the verification rounds performed so far, in order
    explored,        \* the output of the initial exploration
    backend,         \* self.backend
    verifier_backend,\* self.verifier_backend
    last_call,       \* the latest generation call: its arguments and its outcome
    solve_raised,    \* the error that left solve
    \* ---- LLMBackend.generate
    retry_attempts,  \* self.config.retry_attempts
    retry_base_delay,\* self.config.retry_base_delay
    gpc,             \* position of generate
    attempt,         \* the loop variable of generate
    last_exception,
    events,          \* provider calls and sleeps of the current generate call
    returned,        \* the value generate returned
    raised,          \* the error generate raised
    ncalls,          \* number of generate calls started on this backend
    earlier_failures,\* failed provider calls of the finished generate calls
    \* ---- the classifier and its callers
    ptext,           \* the decision text (response, decision_response, check_response)
    plog,            \* the verification log
    pop,             \* the function called on ptext
    pres,            \* the value the call returned
    pconf,           \* the confidence of the returned value, in tenths
    \* ---- main, the outer attempt loop
    max_runs,        \* the --max-runs option
    verifier_arg,    \* the verifier the options ask for, None without one
    dpc,             \* position of main
    run_i,           \* attempts started so far (i + 1 of the for loop)
    success,
    final_solution,
    outcome,         \* what main reported
    attempts,        \* how each finished invocation of solve ended, in order
    assigned,        \* the latest assignment to a field of config tried
    assign_error,    \* the error that assignment raised
    \* ---- merge_consecutive
    conversation,    \* the turns handed to merge_consecutive
    merged,          \* the turns it returned
    remerged,        \* the turns it returned for its own output
    mpc,             \* position of the caller
    \* ---- extract_detailed_solution
    etext,           \* the candidate text
    emarkers,        \* the markers, in list order
    eafter,          \* the after argument
    eres,            \* the value returned
    epc              \* position of the caller

solveVars == <<config, max_iterations, pc, max_iter, solution, verification_log,
               verification, correct_count, error_count, i, result, exit, calls,
               rounds, explored, backend, verifier_backend, last_call,
               solve_raised>>
genVars == <<retry_attempts, retry_base_delay, gpc, attempt, last_exception,
             events, returned, raised, ncalls, earlier_failures>>
parseVars == <<ptext, plog, pop, pres, pconf>>
driverVars == <<max_runs, verifier_arg, dpc, run_i, success, final_solution,
                outcome, attempts, assigned, assign_error>>
mergeVars == <<conversation, merged, remerged, mpc>>
extractVars == <<etext, emarkers, eafter, eres, epc>>
vars == <<solveVars, genVars, parseVars, driverVars, mergeVars, extractVars>>

\* ------------------------------------------------------------ helpers
Last(s) == s[Len(s)]

RECURSIVE Pow2(_)
Pow2(n) == IF n = 0 THEN 1 ELSE 2 * Pow2(n - 1)

\* AgentConfig: the fields the loop reads
Configs ==
    [solver_temperature : {SolverTemperature},
     verifier_temperature : {VerifierTemperature},
     required_consecutive_validations : 1..MaxRequired,
     max_consecutive_errors : 1..MaxErrors,
     max_verification_iterations : 1..MaxIter]

\* a generation call: who was asked, at which temperature, with which texts
\* in the prompt, and what came back (a text, or an error)
Call(kind, llm, temperature, input, text, error) ==
    [kind |-> kind, backend |-> llm, temperature |-> temperature,
     input |-> input, returned |-> text, raised |-> error]

\* no call made yet
NoCall == Call("none", None, 0, <<>>, None, None)

\* verification.py lines 41-48: each pattern as the set of the literals it matches between two word boundaries
positive_patterns ==
    << {<<"c", "o", "r", "r", "e", "c", "t">>},
       {<<"v", "a", "l", "i", "d">>},
       {<<"a", "c", "c", "u", "r", "a", "t", "e">>},
       {<<"p", "r", "o", "o", "f", " ", "i", "s", " ", "s", "o", "u", "n", "d">>,
        <<"p", "r", "o", "o", "f", " ", "i", "s", " ", "c", "o", "m", "p", "l", "e", "t", "e">>,
        <<"p", "r", "o", "o", "f", " ", "i", "s", " ", "c", "o", "r", "r", "e", "c", "t">>},
       {<<"n", "o", " ", "e", "r", "r", "o", "r">>,
        <<"n", "o", " ", "e", "r", "r", "o", "r", "s">>,
        <<"n", "o", " ", "b", "u", "g">>,
        <<"n", "o", " ", "b", "u", "g", "s">>,
        <<"n", "o", " ", "i", "s", "s", "u", "e">>,
        <<"n", "o", " ", "i", "s", "s", "u", "e", "s">>,
        <<"n", "o", " ", "p", "r", "o", "b", "l", "e", "m">>,
        <<"n", "o", " ", "p", "r", "o", "b", "l", "e", "m", "s">>},
       {<<"s", "o", "l", "u", "t", "i", "o", "n", " ", "i", "s", " ", "r", "i", "g", "h", "t">>,
        <<"s", "o", "l", "u", "t", "i", "o", "n", " ", "i", "s", " ", "c", "o", "r", "r", "e", "c", "t">>,
        <<"s", "o", "l", "u", "t", "i", "o", "n", " ", "i", "s", " ", "v", "a", "l", "i", "d">>} >>

\* verification.py lines 49-61
negative_patterns ==
    << {<<"i", "n", "c", "o", "r", "r", "e", "c", "t">>},
       {<<"i", "n", "v", "a", "l", "i", "d">>},
       {<<"e", "r", "r", "o", "r">>},
       {<<"b", "u", "g">>},
       {<<"f", "l", "a", "w">>},
       {<<"m", "i", "s", "t", "a", "k", "e">>},
       {<<"w", "r", "o", "n", "g">>},
       {<<"f", "a", "i", "l">>,
        <<"f", "a", "i", "l", "e", "d">>,
        <<"f", "a", "i", "l", "s">>},
       {<<"g", "a", "p">>},
       {<<"m", "i", "s", "s", "i", "n", "g">>},
       {<<"u", "n", "j", "u", "s", "t", "i", "f", "i", "e", "d">>} >>
YES == <<"y", "e", "s">>
NO == <<"n", "o">>
YES_DOT == <<"y", "e", "s", ".">>
NO_DOT == <<"n", "o", ".">>
VERDICT_YES == <<"f", "i", "n", "a", "l", " ", "v", "e", "r", "d", "i", "c", "t", ":", " ", "y", "e", "s">>
VERDICT_YES_DOT == <<"f", "i", "n", "a", "l", " ", "v", "e", "r", "d", "i", "c", "t", ":", " ", "y", "e", "s", ".">>
VERDICT_NO == <<"f", "i", "n", "a", "l", " ", "v", "e", "r", "d", "i", "c", "t", ":", " ", "n", "o">>
VERDICT_NO_DOT == <<"f", "i", "n", "a", "l", " ", "v", "e", "r", "d", "i", "c", "t", ":", " ", "n", "o", ".">>
AMBIGUOUS == <<"A", "m", "b", "i", "g", "u", "o", "u", "s", " ", "v", "e", "r", "i", "f", "i", "c", "a", "t", "i", "o", "n", " ", "r", "e", "s", "p", "o", "n", "s", "e", ":", " ">>

\* ------------------------------------------------------------ texts
\* A text is a sequence of characters. The str methods and the regular
\* expressions of verification.py are modelled character by character.

\* characters str.strip() removes and str.splitlines() splits at
Whitespace == {" ", "\n"}
\* characters that are no word characters (\w) of a regular expression
NonWordChars == {" ", "\n", ".", ":"}

\* str.lower(), one character
lower_char(c) ==
    CASE c = "Y" -> "y"
      [] c = "F" -> "f"
      [] c = "V" -> "v"
      [] OTHER -> c

RECURSIVE lower(_)
\* str.lower()
lower(s) == IF s = <<>> THEN <<>> ELSE <<lower_char(Head(s))>> \o lower(Tail(s))

RECURSIVE lstrip(_)
lstrip(s) == IF s # <<>> /\ Head(s) \in Whitespace THEN lstrip(Tail(s)) ELSE s

RECURSIVE rstrip(_)
rstrip(s) ==
    IF s # <<>> /\ s[Len(s)] \in Whitespace
    THEN rstrip(SubSeq(s, 1, Len(s) - 1)) ELSE s

\* str.strip()
strip(s) == rstrip(lstrip(s))

RECURSIVE splitlines(_)
\* str.splitlines(): the lines of s, without their line ends
splitlines(s) ==
    IF s = <<>> THEN <<>>
    ELSE LET ends == {k \in 1..Len(s) : s[k] = "\n"}
         IN  IF ends = {} THEN <<s>>
             ELSE LET k == CHOOSE e \in ends : \A f \in ends : e <= f
                  IN  <<SubSeq(s, 1, k - 1)>> \o splitlines(SubSeq(s, k + 1, Len(s)))

\* p occurs in s at position k
occurs_at(s, p, k) ==
    /\ k >= 1
    /\ k + Len(p) - 1 <= Len(s)
    /\ \A j \in 1..Len(p) : s[k + j - 1] = p[j]

\* str.startswith, str.endswith, the operator `in`
startswith(s, p) == occurs_at(s, p, 1)
endswith(s, p) == occurs_at(s, p, Len(s) - Len(p) + 1)
contains(s, p) == \E k \in 1..Len(s) : occurs_at(s, p, k)

\* \b before position k and after position k of s
boundary_before(s, k) == k = 1 \/ s[k - 1] \in NonWordChars
boundary_after(s, k) == k = Len(s) \/ s[k + 1] \in NonWordChars

\* the positions of s with a \b before them
word_starts(s) == {k \in 1..Len(s) : boundary_before(s, k)}

\* re matches literal \b in s at the word start k
word_match_at(s, literal, k) ==
    /\ occurs_at(s, literal, k)
    /\ boundary_after(s, k + Len(literal) - 1)

\* re.search(pattern, text) is not None, given the word starts of text
re_search(pattern, text, starts) ==
    \E k \in starts : \E literal \in pattern : word_match_at(text, literal, k)

\* ------------------------------------------------------------ the classifier
\* VerificationResult(is_valid=True, bug_report="")
ValidResult == [is_valid |-> TRUE, bug_report |-> <<>>]
\* VerificationResult(is_valid=False, bug_report=...)
InvalidResult(report) == [is_valid |-> FALSE, bug_report |-> report]
\* what a call returns when it falls off the end of the function
PyNone == [none |-> TRUE]

\* lines = [line.strip() for line in stripped.splitlines() if line.strip()]
stripped_lines(stripped) ==
    LET all == splitlines(stripped)
        trimmed == [k \in 1..Len(all) |-> strip(all[k])]
    IN  SelectSeq(trimmed, LAMBDA line : line # <<>>)

RECURSIVE scan_forward(_, _)
\* a faulty variant: the lines are read from the first one on
scan_forward(lines, k) ==
    IF k = 0 THEN "none"
    ELSE LET lowered == lower(lines[Len(lines) - k + 1])
         IN  IF lowered \in {VERDICT_YES, VERDICT_YES_DOT} THEN "yes"
             ELSE IF lowered \in {VERDICT_NO, VERDICT_NO_DOT} THEN "no"
             ELSE scan_forward(lines, k - 1)

RECURSIVE scan_reversed(_, _)
\* for line in reversed(lines): the first verdict met from the end
scan_reversed(lines, k) ==
    IF k = 0 THEN "none"
    ELSE LET lowered == lower(lines[k])
         IN  IF lowered \in {VERDICT_YES, VERDICT_YES_DOT} THEN "yes"
             ELSE IF lowered \in {VERDICT_NO, VERDICT_NO_DOT} THEN "no"
             ELSE scan_reversed(lines, k - 1)

\* the strict final verdict line
verdict_line(stripped) ==
    LET lines == stripped_lines(stripped) IN scan_reversed(lines, Len(lines))

\* the exact match
exact_match(text) ==
    IF text = YES THEN "yes" ELSE IF text = NO THEN "no" ELSE "none"

\* a faulty variant: only the start of the text is read
boundary_start_only(text) ==
    IF startswith(text, YES) THEN "yes"
    ELSE IF startswith(text, NO) THEN "no"
    ELSE "none"

\* the pattern match at the boundaries
boundary_match(text) ==
    LET starts_with_yes == startswith(text, YES)
        starts_with_no == startswith(text, NO)
        ends_with_yes == endswith(text, YES) \/ endswith(text, YES_DOT)
        ends_with_no == endswith(text, NO) \/ endswith(text, NO_DOT)
    IN  IF starts_with_yes \/ ends_with_yes THEN "yes"
        ELSE IF starts_with_no \/ ends_with_no THEN "no"
        ELSE "none"

\* sum(1 for pattern in patterns if re.search(pattern, text))
pattern_count(patterns, text) ==
    LET starts == word_starts(text)
    IN  Cardinality({k \in 1..Len(patterns) : re_search(patterns[k], text, starts)})

positive_count(text) == pattern_count(positive_patterns, text)
negative_count(text) == pattern_count(negative_patterns, text)

\* a faulty variant: a tie of the counts is decided as valid
keyword_tie_is_valid(text) ==
    IF positive_count(text) >= negative_count(text) THEN "yes" ELSE "no"

\* the keyword analysis
keyword_analysis(text) ==
    LET p == positive_count(text)
        n == negative_count(text)
    IN  IF p > n THEN "yes" ELSE IF n > p THEN "no" ELSE "none"

\* the fallback: "yes" or "no" anywhere
substring_fallback(text) ==
    IF contains(text, YES) /\ ~contains(text, NO) THEN "yes"
    ELSE IF contains(text, NO) /\ ~contains(text, YES) THEN "no"
    ELSE "none"

\* a faulty variant: the text nothing matches is accepted
ambiguous_is_valid(response) == ValidResult

\* the ambiguous default
ambiguous_default(response) == InvalidResult(AMBIGUOUS \o response)

\* a faulty variant: the keywords are read before the boundaries
decide_keyword_first(response) ==
    LET stripped == strip(response)
        text == lower(stripped)
        verdict == verdict_line(stripped)
        exact == exact_match(text)
        boundary == boundary_match(text)
        keyword == keyword_analysis(text)
    IN  IF verdict # "none" THEN verdict
        ELSE IF exact # "none" THEN exact
        ELSE IF keyword # "none" THEN keyword
        ELSE IF boundary # "none" THEN boundary
        ELSE substring_fallback(text)

\* the strategies in the order the function tries them
decide(response) ==
    LET stripped == strip(response)
        text == lower(stripped)
        verdict == verdict_line(stripped)
        exact == exact_match(text)
        boundary == boundary_match(text)
        keyword == keyword_analysis(text)
    IN  IF verdict # "none" THEN verdict
        ELSE IF exact # "none" THEN exact
        ELSE IF boundary # "none" THEN boundary
        ELSE IF keyword # "none" THEN keyword
        ELSE substring_fallback(text)

\* a faulty variant: the bug report is the trimmed text
parse_reports_trimmed(response) ==
    LET d == decide(response)
    IN  IF d = "yes" THEN ValidResult
        ELSE IF d = "no" THEN InvalidResult(strip(response))
        ELSE ambiguous_default(response)

parse_verification_response(response) ==
    LET d == decide(response)
    IN  IF d = "yes" THEN ValidResult
        ELSE IF d = "no" THEN InvalidResult(response)
        ELSE ambiguous_default(response)

\* a faulty variant: the report of the classifier is kept
summarize_keeps_report(decision_response, log) ==
    parse_verification_response(decision_response)

summarize_verification(decision_response, log) ==
    LET decision == parse_verification_response(decision_response)
    IN  IF decision.is_valid THEN decision ELSE InvalidResult(log)

\* VerificationResult.confidence, in tenths (10 is 1.0). The classifier of
\* verification.py sets none; the values are those the specification gives
\* to each strategy, applied to the strategy that decides in the code.
confidence(response) ==
    LET stripped == strip(response)
        text == lower(stripped)
        p == positive_count(text)
        n == negative_count(text)
        diff == IF p > n THEN p - n ELSE n - p
    IN  IF verdict_line(stripped) # "none" THEN 10
        ELSE IF exact_match(text) # "none" THEN 10
        ELSE IF boundary_match(text) # "none"
             THEN IF startswith(text, YES) \/ startswith(text, NO) THEN 9 ELSE 8
        ELSE IF keyword_analysis(text) # "none"
             THEN IF 5 + diff < 7 THEN 5 + diff ELSE 7
        ELSE IF substring_fallback(text) # "none" THEN 4
        ELSE 3

\* the tail of _verify_solution: the log replaces the bug report when invalid
VerificationOf(check_response, log) ==
    LET r == parse_verification_response(check_response)
    IN  IF ~r.is_valid THEN InvalidResult(log) ELSE r

RECURSIVE Concats(_)
\* the texts made of at most n tokens
Concats(n) ==
    IF n = 0 THEN {<<>>}
    ELSE LET shorter == Concats(n - 1)
         IN  shorter \cup {s \o t : s \in shorter, t \in Tokens}

\* the texts the classifier is called on
Inputs == Concats(MaxTokens)

NoVerification == [is_valid |-> FALSE, bug_report |-> None]

\* ------------------------------------------------------------ solve
InitSolve ==
    /\ config \in Configs
    /\ max_iterations \in 0..MaxIter
    /\ pc = "start"
    /\ max_iter = 0
    /\ solution = None
    /\ verification_log = None
    /\ verification = NoVerification
    /\ correct_count = 0
    /\ error_count = 0
    /\ i = 0
    /\ result = None
    /\ exit = "none"
    /\ calls = <<>>
    /\ rounds = <<>>
    /\ explored = None
    /\ backend = SolverLLM
    /\ verifier_backend = VerifierLLM
    /\ last_call = NoCall
    /\ solve_raised = None

IdleSolve ==
    /\ config = [solver_temperature |-> SolverTemperature,
                 verifier_temperature |-> VerifierTemperature,
                 required_consecutive_validations |-> 1,
                 max_consecutive_errors |-> 1,
                 max_verification_iterations |-> 1]
    /\ max_iterations = 0
    /\ pc = "idle"
    /\ max_iter = 0
    /\ solution = None
    /\ verification_log = None
    /\ verification = NoVerification
    /\ correct_count = 0
    /\ error_count = 0
    /\ i = 0
    /\ result = None
    /\ exit = "none"
    /\ calls = <<>>
    /\ rounds = <<>>
    /\ explored = None
    /\ backend = SolverLLM
    /\ verifier_backend = VerifierLLM
    /\ last_call = NoCall
    /\ solve_raised = None

\* a call to the solver backend (lines 113-118, 132-137, 204-209)
SolverCall(kind, input, text, error) ==
    Call(kind, backend, config.solver_temperature, input, text, error)

\* a call to the verifier backend, a faulty variant: at the solver's temperature
VerifierCallAtSolverTemperature(kind, input, text, error) ==
    Call(kind, verifier_backend, config.solver_temperature, input, text, error)

\* a call to the verifier backend (lines 157-161, 171-175)
VerifierCall(kind, input, text, error) ==
    Call(kind, verifier_backend, config.verifier_temperature, input, text, error)

\* a generation call of solve that raises, a faulty variant: the error is
\* caught and solve returns None
PropagateAsNone(call) ==
    /\ pc' = "done"
    /\ result' = None
    /\ exit' = "errors"
    /\ calls' = Append(calls, call.kind)
    /\ last_call' = call
    /\ UNCHANGED <<backend, verifier_backend, solve_raised, config,
                   max_iterations, max_iter, solution, verification_log,
                   verification, correct_count, error_count, i,
                   rounds, explored>>

\* a generation call of solve that raises: nothing in solve catches it
Propagate(call) ==
    /\ pc' = "raised"
    /\ calls' = Append(calls, call.kind)
    /\ last_call' = call
    /\ solve_raised' = call.raised
    /\ UNCHANGED <<backend, verifier_backend, config, max_iterations, max_iter,
                   solution, verification_log,
                   verification, correct_count, error_count, i, result, exit,
                   rounds, explored>>

\* line 48
Start ==
    /\ pc = "start"
    /\ max_iter' = IF max_iterations # 0 THEN max_iterations
                   ELSE config.max_verification_iterations
    /\ pc' = "explore"
    /\ UNCHANGED <<backend, verifier_backend, solve_raised, last_call, config,
                   max_iterations, solution, verification_log,
                   verification, correct_count, error_count, i, result, exit,
                   calls, rounds, explored>>

\* lines 52-55, a faulty variant: no guard on the empty text
ExploreNoGuard ==
    /\ pc = "explore"
    /\ \E text \in Texts :
          /\ solution' = text
          /\ explored' = text
          /\ calls' = Append(calls, "explore")
          /\ last_call' = SolverCall("explore", <<>>, text, None)
          /\ pc' = "improve"
          /\ UNCHANGED <<result, exit>>
    /\ UNCHANGED <<backend, verifier_backend, solve_raised, config,
                   max_iterations, max_iter, verification_log,
                   verification, correct_count, error_count, i, rounds>>

\* lines 52-55
Explore ==
    /\ pc = "explore"
    /\ \E text \in Texts :
          /\ solution' = text
          /\ explored' = text
          /\ calls' = Append(calls, "explore")
          /\ last_call' = SolverCall("explore", <<>>, text, None)
          /\ IF text = ""
             THEN /\ pc' = "done"
                  /\ result' = None
                  /\ exit' = "empty"
             ELSE /\ pc' = "improve"
                  /\ UNCHANGED <<result, exit>>
    /\ UNCHANGED <<backend, verifier_backend, solve_raised, config,
                   max_iterations, max_iter, verification_log,
                   verification, correct_count, error_count, i, rounds>>

ExploreRaises ==
    /\ pc = "explore"
    /\ \E e \in Errors : Propagate(SolverCall("explore", <<>>, None, e))

\* line 58, a faulty variant: an empty improvement keeps the exploration output
SelfImproveKeepsCandidate ==
    /\ pc = "improve"
    /\ \E text \in Texts :
          /\ solution' = IF text = "" THEN solution ELSE text
          /\ calls' = Append(calls, "improve")
          /\ last_call' = SolverCall("improve", <<solution>>, text, None)
    /\ pc' = "verify_initial"
    /\ UNCHANGED <<backend, verifier_backend, solve_raised, config,
                   max_iterations, max_iter, verification_log,
                   verification, correct_count, error_count, i, result, exit,
                   rounds, explored>>

\* line 58
SelfImprove ==
    /\ pc = "improve"
    /\ \E text \in Texts :
          /\ solution' = text
          /\ calls' = Append(calls, "improve")
          /\ last_call' = SolverCall("improve", <<solution>>, text, None)
    /\ pc' = "verify_initial"
    /\ UNCHANGED <<backend, verifier_backend, solve_raised, config,
                   max_iterations, max_iter, verification_log,
                   verification, correct_count, error_count, i, result, exit,
                   rounds, explored>>

SelfImproveRaises ==
    /\ pc = "improve"
    /\ \E e \in Errors : Propagate(SolverCall("improve", <<solution>>, None, e))

\* lines 142-161, a faulty variant: the verifier is stored as self.backend
VerifyLogSwapsBackend ==
    /\ pc \in {"verify_initial", "verify_loop"}
    /\ \E log \in Logs :
          /\ verification_log' = log
          /\ calls' = Append(calls, "verify_log")
          /\ last_call' = VerifierCall("verify_log", <<solution>>, log, None)
    /\ pc' = IF pc = "verify_initial" THEN "check_initial" ELSE "check_loop"
    /\ backend' = verifier_backend
    /\ UNCHANGED <<verifier_backend, solve_raised, config, max_iterations,
                   max_iter, solution, verification,
                   correct_count, error_count, i, result, exit, rounds, explored>>

\* lines 142-161: the critique log call of _verify_solution
VerifyLog ==
    /\ pc \in {"verify_initial", "verify_loop"}
    /\ \E log \in Logs :
          /\ verification_log' = log
          /\ calls' = Append(calls, "verify_log")
          /\ last_call' = VerifierCall("verify_log", <<solution>>, log, None)
    /\ pc' = IF pc = "verify_initial" THEN "check_initial" ELSE "check_loop"
    /\ UNCHANGED <<backend, verifier_backend, solve_raised, config,
                   max_iterations, max_iter, solution, verification,
                   correct_count, error_count, i, result, exit, rounds, explored>>

VerifyLogRaises ==
    /\ pc \in {"verify_initial", "verify_loop"}
    /\ \E e \in Errors :
          Propagate(VerifierCall("verify_log", <<solution>>, None, e))

\* lines 164-188: the decision call of _verify_solution and its result
VerifyCheck ==
    /\ pc \in {"check_initial", "check_loop"}
    /\ \E check_response \in DecisionTexts :
          /\ verification' = VerificationOf(check_response, verification_log)
          /\ calls' = Append(calls, "verify_check")
          /\ last_call' = VerifierCall("verify_check", <<verification_log>>,
                                       check_response, None)
          /\ rounds' = Append(rounds,
                 [valid |-> VerificationOf(check_response, verification_log).is_valid,
                  candidate |-> solution,
                  corrected |-> Len(calls) >= 3 /\ calls[Len(calls) - 1] = "correct"])
    /\ pc' = IF pc = "check_initial" THEN "init_counts" ELSE "update"
    /\ UNCHANGED <<backend, verifier_backend, solve_raised, config,
                   max_iterations, max_iter, solution, verification_log,
                   correct_count, error_count, i, result, exit, explored>>

VerifyCheckRaises ==
    /\ pc \in {"check_initial", "check_loop"}
    /\ \E e \in Errors :
          Propagate(VerifierCall("verify_check", <<verification_log>>, None, e))

\* lines 64-65, a faulty variant: a valid initial round counts twice
InitCountsTwice ==
    /\ pc = "init_counts"
    /\ correct_count' = IF verification.is_valid THEN 2 ELSE 0
    /\ error_count' = 0
    /\ pc' = "loop_head"
    /\ UNCHANGED <<backend, verifier_backend, solve_raised, last_call, config,
                   max_iterations, max_iter, solution, verification_log,
                   verification, i, result, exit, calls, rounds, explored>>

\* lines 64-65
InitCounts ==
    /\ pc = "init_counts"
    /\ correct_count' = IF verification.is_valid THEN 1 ELSE 0
    /\ error_count' = 0
    /\ pc' = "loop_head"
    /\ UNCHANGED <<backend, verifier_backend, solve_raised, last_call, config,
                   max_iterations, max_iter, solution, verification_log,
                   verification, i, result, exit, calls, rounds, explored>>

\* line 68 with lines 106-107, a faulty variant: one iteration more
LoopHeadOneMore ==
    /\ pc = "loop_head"
    /\ IF i <= max_iter
       THEN /\ i' = i + 1
            /\ pc' = "iteration"
            /\ UNCHANGED <<result, exit>>
       ELSE /\ pc' = "done"
            /\ result' = None
            /\ exit' = "iterations"
            /\ UNCHANGED i
    /\ UNCHANGED <<backend, verifier_backend, solve_raised, last_call, config,
                   max_iterations, max_iter, solution, verification_log,
                   verification, correct_count, error_count, calls, rounds, explored>>

\* line 68 with lines 106-107, a faulty variant: the candidate is returned
LoopHeadReturnsCandidate ==
    /\ pc = "loop_head"
    /\ IF i < max_iter
       THEN /\ i' = i + 1
            /\ pc' = "iteration"
            /\ UNCHANGED <<result, exit>>
       ELSE /\ pc' = "done"
            /\ result' = solution
            /\ exit' = "iterations"
            /\ UNCHANGED i
    /\ UNCHANGED <<backend, verifier_backend, solve_raised, last_call, config,
                   max_iterations, max_iter, solution, verification_log,
                   verification, correct_count, error_count, calls, rounds, explored>>

\* line 68: for i in range(max_iter); lines 106-107 when the range is exhausted
LoopHead ==
    /\ pc = "loop_head"
    /\ IF i < max_iter
       THEN /\ i' = i + 1
            /\ pc' = "iteration"
            /\ UNCHANGED <<result, exit>>
       ELSE /\ pc' = "done"
            /\ result' = None
            /\ exit' = "iterations"
            /\ UNCHANGED i
    /\ UNCHANGED <<backend, verifier_backend, solve_raised, last_call, config,
                   max_iterations, max_iter, solution, verification_log,
                   verification, correct_count, error_count, calls, rounds, explored>>

\* lines 74-77, a faulty variant: a correction whatever the latest verification
HandleAlways ==
    /\ pc = "iteration"
    /\ correct_count' = 0
    /\ error_count' = error_count + 1
    /\ pc' = "correct"
    /\ UNCHANGED <<backend, verifier_backend, solve_raised, last_call, config,
                   max_iterations, max_iter, solution, verification_log,
                   verification, i, result, exit, calls, rounds, explored>>

\* lines 74-77: the latest verification was invalid
HandleInvalid ==
    /\ pc = "iteration"
    /\ ~verification.is_valid
    /\ correct_count' = 0
    /\ error_count' = error_count + 1
    /\ pc' = "correct"
    /\ UNCHANGED <<backend, verifier_backend, solve_raised, last_call, config,
                   max_iterations, max_iter, solution, verification_log,
                   verification, i, result, exit, calls, rounds, explored>>

\* line 74, the branch not taken
SkipCorrection ==
    /\ pc = "iteration"
    /\ verification.is_valid
    /\ pc' = "verify_loop"
    /\ UNCHANGED <<backend, verifier_backend, solve_raised, last_call, config,
                   max_iterations, max_iter, solution, verification_log,
                   verification, correct_count, error_count, i, result, exit,
                   calls, rounds, explored>>

\* lines 79-81
Correct ==
    /\ pc = "correct"
    /\ \E text \in Texts :
          /\ solution' = text
          /\ calls' = Append(calls, "correct")
          /\ last_call' = SolverCall("correct",
                                     <<solution, verification.bug_report>>, text, None)
    /\ pc' = "verify_loop"
    /\ UNCHANGED <<backend, verifier_backend, solve_raised, config,
                   max_iterations, max_iter, verification_log,
                   verification, correct_count, error_count, i, result, exit,
                   rounds, explored>>

CorrectRaises ==
    /\ pc = "correct"
    /\ \E e \in Errors :
          Propagate(SolverCall("correct", <<solution, verification.bug_report>>,
                               None, e))

\* lines 86-88, a faulty variant: error_count is not reset
UpdateStreakNoReset ==
    /\ pc = "update"
    /\ IF verification.is_valid
       THEN /\ correct_count' = correct_count + 1
            /\ UNCHANGED error_count
       ELSE UNCHANGED <<correct_count, error_count>>
    /\ pc' = "test"
    /\ UNCHANGED <<backend, verifier_backend, solve_raised, last_call, config,
                   max_iterations, max_iter, solution, verification_log,
                   verification, i, result, exit, calls, rounds, explored>>

\* lines 86-93
UpdateStreak ==
    /\ pc = "update"
    /\ IF verification.is_valid
       THEN /\ correct_count' = correct_count + 1
            /\ error_count' = 0
       ELSE UNCHANGED <<correct_count, error_count>>
    /\ pc' = "test"
    /\ UNCHANGED <<backend, verifier_backend, solve_raised, last_call, config,
                   max_iterations, max_iter, solution, verification_log,
                   verification, i, result, exit, calls, rounds, explored>>

\* lines 95-104, a faulty variant: success returns the exploration output
TestTerminationReturnsExplored ==
    /\ pc = "test"
    /\ IF correct_count >= config.required_consecutive_validations
       THEN /\ pc' = "done"
            /\ result' = explored
            /\ exit' = "success"
       ELSE IF error_count >= config.max_consecutive_errors
       THEN /\ pc' = "done"
            /\ result' = None
            /\ exit' = "errors"
       ELSE /\ pc' = "loop_head"
            /\ UNCHANGED <<result, exit>>
    /\ UNCHANGED <<backend, verifier_backend, solve_raised, last_call, config,
                   max_iterations, max_iter, solution, verification_log,
                   verification, correct_count, error_count, i, calls, rounds,
                   explored>>

\* lines 95-104
TestTermination ==
    /\ pc = "test"
    /\ IF correct_count >= config.required_consecutive_validations
       THEN /\ pc' = "done"
            /\ result' = solution
            /\ exit' = "success"
       ELSE IF error_count >= config.max_consecutive_errors
       THEN /\ pc' = "done"
            /\ result' = None
            /\ exit' = "errors"
       ELSE /\ pc' = "loop_head"
            /\ UNCHANGED <<result, exit>>
    /\ UNCHANGED <<backend, verifier_backend, solve_raised, last_call, config,
                   max_iterations, max_iter, solution, verification_log,
                   verification, correct_count, error_count, i, calls, rounds,
                   explored>>

\* ------------------------------------------------------------ generate
IdleGen ==
    /\ retry_attempts = 0
    /\ retry_base_delay = 1
    /\ gpc = "idle"
    /\ attempt = 0
    /\ last_exception = None
    /\ events = <<>>
    /\ returned = None
    /\ raised = None
    /\ ncalls = 0
    /\ earlier_failures = 0

InitGen ==
    /\ retry_attempts \in 0..MaxRetry
    /\ retry_base_delay \in 1..MaxBaseDelay
    /\ gpc = "idle"
    /\ attempt = 0
    /\ last_exception = None
    /\ events = <<>>
    /\ returned = None
    /\ raised = None
    /\ ncalls = 0
    /\ earlier_failures = 0

FailedCalls(evs) == {j \in 1..Len(evs) : evs[j].kind = "call" /\ ~evs[j].ok}
ProviderCalls(evs) == {j \in 1..Len(evs) : evs[j].kind = "call"}
Sleeps(evs) == {j \in 1..Len(evs) : evs[j].kind = "sleep"}

\* lines 18-31, a faulty variant: the attempt counter of the call before is kept
GenerateEnterKeepsCounter ==
    /\ gpc \in {"idle", "returned", "raised"}
    /\ ncalls < MaxGenerateCalls
    /\ ncalls' = ncalls + 1
    /\ earlier_failures' = earlier_failures + Cardinality(FailedCalls(events))
    /\ last_exception' = None
    /\ attempt' = attempt
    /\ events' = <<>>
    /\ returned' = None
    /\ raised' = None
    /\ gpc' = IF attempt < retry_attempts THEN "try" ELSE "raise"
    /\ UNCHANGED <<retry_attempts, retry_base_delay>>

\* lines 18-31: a call of generate; the loop starts at attempt 0
GenerateEnter ==
    /\ gpc \in {"idle", "returned", "raised"}
    /\ ncalls < MaxGenerateCalls
    /\ ncalls' = ncalls + 1
    /\ earlier_failures' = earlier_failures + Cardinality(FailedCalls(events))
    /\ last_exception' = None
    /\ attempt' = 0
    /\ events' = <<>>
    /\ returned' = None
    /\ raised' = None
    /\ gpc' = IF 0 < retry_attempts THEN "try" ELSE "raise"
    /\ UNCHANGED <<retry_attempts, retry_base_delay>>

\* lines 32-37: the provider call returns
ProviderReturns ==
    /\ gpc = "try"
    /\ \E text \in ProviderTexts :
          /\ events' = Append(events, [kind |-> "call", ok |-> TRUE, value |-> text])
          /\ returned' = text
    /\ gpc' = "returned"
    /\ UNCHANGED <<retry_attempts, retry_base_delay, attempt, last_exception,
                   raised, ncalls, earlier_failures>>

\* lines 32-39: the provider call raises
ProviderRaises ==
    /\ gpc = "try"
    /\ \E e \in Errors :
          /\ events' = Append(events, [kind |-> "call", ok |-> FALSE, value |-> e])
          /\ last_exception' = e
    /\ gpc' = "failed"
    /\ UNCHANGED <<retry_attempts, retry_base_delay, attempt, returned, raised,
                   ncalls, earlier_failures>>

\* line 41, a faulty variant: no exponential factor
DelayConstant(a) == retry_base_delay

\* line 41
Delay(a) == retry_base_delay * Pow2(a)

\* lines 40-50, a faulty variant: a sleep after the last attempt too
BackoffAlways ==
    /\ gpc = "failed"
    /\ events' = Append(events, [kind |-> "sleep", ok |-> TRUE, value |-> Delay(attempt)])
    /\ attempt' = attempt + 1
    /\ gpc' = IF attempt + 1 < retry_attempts THEN "try" ELSE "raise"
    /\ UNCHANGED <<retry_attempts, retry_base_delay, last_exception, returned,
                   raised, ncalls, earlier_failures>>

\* lines 40-50 and the next turn of the loop of line 31
Backoff ==
    /\ gpc = "failed"
    /\ IF attempt < retry_attempts - 1
       THEN events' = Append(events,
                [kind |-> "sleep", ok |-> TRUE, value |-> Delay(attempt)])
       ELSE UNCHANGED events
    /\ attempt' = attempt + 1
    /\ gpc' = IF attempt + 1 < retry_attempts THEN "try" ELSE "raise"
    /\ UNCHANGED <<retry_attempts, retry_base_delay, last_exception, returned,
                   raised, ncalls, earlier_failures>>

\* line 52: raise last_exception; raising None raises a TypeError
Raise ==
    /\ gpc = "raise"
    /\ raised' = IF last_exception = None THEN TypeError ELSE last_exception
    /\ gpc' = "raised"
    /\ UNCHANGED <<retry_attempts, retry_base_delay, attempt, last_exception,
                   events, returned, ncalls, earlier_failures>>

\* ------------------------------------------------------------ the classifier's callers
\* no call made yet
IdleParse ==
    /\ ptext = <<>>
    /\ plog = <<>>
    /\ pop = "idle"
    /\ pres = PyNone
    /\ pconf = 0

InitParse ==
    /\ ptext \in Inputs
    /\ plog = <<>>
    /\ pop = "none"
    /\ pres = PyNone
    /\ pconf = 0

\* a faulty variant: a blank text gets no result
ParseFailsOnBlank ==
    /\ pop = "none"
    /\ pop' = "parse"
    /\ pres' = IF strip(ptext) = <<>> THEN PyNone
               ELSE parse_verification_response(ptext)
    /\ pconf' = confidence(ptext)
    /\ UNCHANGED <<ptext, plog>>

\* parse_verification_response(ptext)
Parse ==
    /\ pop = "none"
    /\ pop' = "parse"
    /\ pres' = parse_verification_response(ptext)
    /\ pconf' = confidence(ptext)
    /\ UNCHANGED <<ptext, plog>>

\* summarize_verification(ptext, log)
Summarize ==
    /\ pop = "none"
    /\ \E log \in LogTexts :
          /\ plog' = log
          /\ pres' = summarize_verification(ptext, log)
    /\ pop' = "summarize"
    /\ pconf' = confidence(ptext)
    /\ UNCHANGED ptext

\* _verify_solution, once the verifier returned the log and ptext as its decision
VerifyTail ==
    /\ pop = "none"
    /\ \E log \in LogTexts :
          /\ plog' = log
          /\ pres' = VerificationOf(ptext, log)
    /\ pop' = "verify"
    /\ pconf' = confidence(ptext)
    /\ UNCHANGED ptext

\* ------------------------------------------------------------ main
IdleDriver ==
    /\ max_runs = 0
    /\ verifier_arg = VerifierLLM
    /\ dpc = "idle"
    /\ run_i = 0
    /\ success = FALSE
    /\ final_solution = None
    /\ outcome = "none"
    /\ attempts = <<>>
    /\ assigned = None
    /\ assign_error = None

\* agent.py line 27: verifier_backend or backend
VerifierOr(verifier, llm) == IF verifier = None THEN llm ELSE verifier

\* the configurations main runs with: every streak and error cap, and one
\* pass of the verification loop, which lets an attempt end in every way
DriverConfigs == {c \in Configs : c.max_verification_iterations = 1}

\* cli.py lines 76-96: the config, the backends and the agent are built, and
\* lines 99-100: no attempt made yet
InitMain(configs, verifiers) ==
    /\ max_runs \in 0..MaxRuns
    /\ verifier_arg \in verifiers
    /\ dpc = "loop"
    /\ run_i = 0
    /\ success = FALSE
    /\ final_solution = None
    /\ outcome = "none"
    /\ attempts = <<>>
    /\ assigned = None
    /\ assign_error = None
    /\ config \in configs
    /\ max_iterations = 0
    /\ pc = "idle"
    /\ max_iter = 0
    /\ solution = None
    /\ verification_log = None
    /\ verification = NoVerification
    /\ correct_count = 0
    /\ error_count = 0
    /\ i = 0
    /\ result = None
    /\ exit = "none"
    /\ calls = <<>>
    /\ rounds = <<>>
    /\ explored = None
    /\ backend = SolverLLM
    /\ verifier_backend = VerifierOr(VerifierOr(verifier_arg, SolverLLM), backend)
    /\ last_call = NoCall
    /\ solve_raised = None

\* main with or without a verifier of its own
InitDriver == InitMain(DriverConfigs, {None, VerifierLLM})

\* cli.py lines 102-104, a faulty variant: the attempt is not counted
CallSolveNoCount ==
    /\ dpc = "loop"
    /\ run_i < max_runs
    /\ dpc' = "solve"
    /\ pc' = "start"
    /\ max_iter' = 0
    /\ solution' = None
    /\ verification_log' = None
    /\ verification' = NoVerification
    /\ correct_count' = 0
    /\ error_count' = 0
    /\ i' = 0
    /\ result' = None
    /\ exit' = "none"
    /\ calls' = <<>>
    /\ rounds' = <<>>
    /\ explored' = None
    /\ last_call' = NoCall
    /\ UNCHANGED <<config, max_iterations, backend, verifier_backend,
                   solve_raised>>
    /\ UNCHANGED <<max_runs, verifier_arg, run_i, success, final_solution,
                   outcome, attempts, assigned, assign_error>>

\* cli.py lines 102-104: the next attempt, a new call of agent.solve with its
\* own locals
CallSolve ==
    /\ dpc = "loop"
    /\ run_i < max_runs
    /\ run_i' = run_i + 1
    /\ dpc' = "solve"
    /\ pc' = "start"
    /\ max_iter' = 0
    /\ solution' = None
    /\ verification_log' = None
    /\ verification' = NoVerification
    /\ correct_count' = 0
    /\ error_count' = 0
    /\ i' = 0
    /\ result' = None
    /\ exit' = "none"
    /\ calls' = <<>>
    /\ rounds' = <<>>
    /\ explored' = None
    /\ last_call' = NoCall
    /\ UNCHANGED <<config, max_iterations, backend, verifier_backend,
                   solve_raised>>
    /\ UNCHANGED <<max_runs, verifier_arg, success, final_solution, outcome,
                   attempts, assigned, assign_error>>

\* how an invocation of solve ended: in Success (lines 95-100), in Failure
\* (lines 55, 104, 107) or by an error
Ended(how, value) ==
    [ended |-> IF how = "success" THEN "Success"
               ELSE IF how = "raised" THEN "Raised" ELSE "Failure",
     solution |-> value]

\* Python truth of a returned text: None and the empty text are false
Truthy(text) == text \notin {None, ""}

\* cli.py line 106, a faulty variant: the value is tested against None
AfterSolveTestsNone ==
    /\ dpc = "solve"
    /\ pc = "done"
    /\ attempts' = Append(attempts, Ended(exit, result))
    /\ IF result # None
       THEN /\ final_solution' = result
            /\ success' = TRUE
            /\ dpc' = "report"
       ELSE /\ dpc' = "loop"
            /\ UNCHANGED <<final_solution, success>>
    /\ pc' = "idle"
    /\ max_iter' = 0
    /\ solution' = None
    /\ verification_log' = None
    /\ verification' = NoVerification
    /\ correct_count' = 0
    /\ error_count' = 0
    /\ i' = 0
    /\ result' = None
    /\ exit' = "none"
    /\ calls' = <<>>
    /\ rounds' = <<>>
    /\ explored' = None
    /\ last_call' = NoCall
    /\ UNCHANGED <<config, max_iterations, backend, verifier_backend,
                   solve_raised>>
    /\ UNCHANGED <<max_runs, verifier_arg, run_i, outcome, assigned,
                   assign_error>>

\* cli.py lines 104-112: solve returned, its locals are gone, and main tests
\* the value
AfterSolve ==
    /\ dpc = "solve"
    /\ pc = "done"
    /\ attempts' = Append(attempts, Ended(exit, result))
    /\ IF Truthy(result)
       THEN /\ final_solution' = result
            /\ success' = TRUE
            /\ dpc' = "report"
       ELSE /\ dpc' = "loop"
            /\ UNCHANGED <<final_solution, success>>
    /\ pc' = "idle"
    /\ max_iter' = 0
    /\ solution' = None
    /\ verification_log' = None
    /\ verification' = NoVerification
    /\ correct_count' = 0
    /\ error_count' = 0
    /\ i' = 0
    /\ result' = None
    /\ exit' = "none"
    /\ calls' = <<>>
    /\ rounds' = <<>>
    /\ explored' = None
    /\ last_call' = NoCall
    /\ UNCHANGED <<config, max_iterations, backend, verifier_backend,
                   solve_raised>>
    /\ UNCHANGED <<max_runs, verifier_arg, run_i, outcome, assigned,
                   assign_error>>

\* cli.py line 104, a faulty variant: main catches the error and goes on
SolveRaisedCaught ==
    /\ dpc = "solve"
    /\ pc = "raised"
    /\ attempts' = Append(attempts, Ended("failure", None))
    /\ dpc' = "loop"
    /\ UNCHANGED outcome
    /\ UNCHANGED solveVars
    /\ UNCHANGED <<max_runs, verifier_arg, run_i, success, final_solution,
                   assigned, assign_error>>

\* cli.py line 104: solve raised, and nothing in main catches it
SolveRaised ==
    /\ dpc = "solve"
    /\ pc = "raised"
    /\ attempts' = Append(attempts, Ended("raised", None))
    /\ dpc' = "exit"
    /\ outcome' = "raised"
    /\ UNCHANGED solveVars
    /\ UNCHANGED <<max_runs, verifier_arg, run_i, success, final_solution,
                   assigned, assign_error>>

\* cli.py line 102: the range is exhausted
LoopExhausted ==
    /\ dpc = "loop"
    /\ run_i >= max_runs
    /\ dpc' = "report"
    /\ UNCHANGED solveVars
    /\ UNCHANGED <<max_runs, verifier_arg, run_i, success, final_solution,
                   outcome, attempts, assigned, assign_error>>

\* cli.py lines 114-123
Report ==
    /\ dpc = "report"
    /\ outcome' = IF success /\ Truthy(final_solution) THEN "solution"
                  ELSE "failed"
    /\ dpc' = "exit"
    /\ UNCHANGED solveVars
    /\ UNCHANGED <<max_runs, verifier_arg, run_i, success, final_solution,
                   attempts, assigned, assign_error>>

\* the fields of AgentConfig the model keeps, and values to assign to them
Fields == {"solver_temperature", "verifier_temperature",
           "required_consecutive_validations", "max_consecutive_errors",
           "max_verification_iterations"}
FieldValues == 0..1

FrozenInstanceError == "FrozenInstanceError"

\* config.py line 4, a faulty variant: the dataclass is not frozen
AssignFieldMutable ==
    /\ dpc = "loop"
    /\ assigned = None
    /\ \E f \in Fields, v \in FieldValues :
          /\ assigned' = <<f, v>>
          /\ config' = [config EXCEPT ![f] = v]
    /\ UNCHANGED assign_error
    /\ UNCHANGED <<max_iterations, pc, max_iter, solution, verification_log,
                   verification, correct_count, error_count, i, result, exit,
                   calls, rounds, explored, backend, verifier_backend,
                   last_call, solve_raised>>
    /\ UNCHANGED <<max_runs, verifier_arg, dpc, run_i, success, final_solution,
                   outcome, attempts>>

\* config.py line 4, frozen=True: config.f = v raises FrozenInstanceError,
\* which nothing in main catches
AssignField ==
    /\ dpc = "loop"
    /\ assigned = None
    /\ \E f \in Fields, v \in FieldValues : assigned' = <<f, v>>
    /\ assign_error' = FrozenInstanceError
    /\ dpc' = "exit"
    /\ outcome' = "raised"
    /\ UNCHANGED solveVars
    /\ UNCHANGED <<max_runs, verifier_arg, run_i, success, final_solution,
                   attempts>>

\* ------------------------------------------------------------ merge_consecutive
Roles == {"system", "user", "assistant"}
Contents == {<<>>, <<"a">>, <<"b">>, <<"c">>}
Turn(role, content) == [role |-> role, content |-> content]
Turns == [role : Roles, content : Contents]

\* the blank line that joins merged contents
BlankLine == <<"\n", "\n">>

\* conversations of n turns at most
Conversations(n) == UNION {[1..k -> Turns] : k \in 0..n}

\* a faulty variant: the later turn is put before the earlier one
RECURSIVE merge_reversed(_)
merge_reversed(turns) ==
    IF Len(turns) <= 1 THEN turns
    ELSE LET done == merge_reversed(SubSeq(turns, 1, Len(turns) - 1))
             msg == Last(turns)
             prev == Last(done)
         IN  IF prev.role = msg.role
             THEN [done EXCEPT ![Len(done)] =
                      Turn(prev.role, msg.content \o BlankLine \o prev.content)]
             ELSE Append(done, msg)

\* one scan in order: a turn of the role of the turn before it is joined to
\* that turn by a blank line, any other turn is kept
RECURSIVE merge_consecutive(_)
merge_consecutive(turns) ==
    IF Len(turns) <= 1 THEN turns
    ELSE LET done == merge_consecutive(SubSeq(turns, 1, Len(turns) - 1))
             msg == Last(turns)
             prev == Last(done)
         IN  IF prev.role = msg.role
             THEN [done EXCEPT ![Len(done)] =
                      Turn(prev.role, prev.content \o BlankLine \o msg.content)]
             ELSE Append(done, msg)

IdleMerge ==
    /\ conversation = <<>>
    /\ merged = <<>>
    /\ remerged = <<>>
    /\ mpc = "idle"

InitMerge ==
    /\ conversation \in Conversations(MaxTurns)
    /\ merged = <<>>
    /\ remerged = <<>>
    /\ mpc = "built"

\* openai.py line 34, anthropic.py line 34
Merge ==
    /\ mpc = "built"
    /\ merged' = merge_consecutive(conversation)
    /\ mpc' = "merged"
    /\ UNCHANGED <<conversation, remerged>>

\* the output handed to merge_consecutive once more
MergeAgain ==
    /\ mpc = "merged"
    /\ remerged' = merge_consecutive(merged)
    /\ mpc' = "remerged"
    /\ UNCHANGED <<conversation, merged>>

\* ------------------------------------------------------------ extract_detailed_solution
\* the characters of a candidate, and its section markers
Chars == {"A", "B", "x", " ", "\n"}
MarkerA == <<"A">>
MarkerB == <<"B">>
\* a marker that spans a line end
MarkerLines == <<"x", "\n">>
MarkerLists ==
    {<<MarkerA>>, <<MarkerB>>, <<MarkerA, MarkerB>>, <<MarkerB, MarkerA>>,
     <<MarkerLines, MarkerA>>}

\* the texts of n characters at most
CharTexts(n) == UNION {[1..k -> Chars] : k \in 0..n}

RECURSIVE split_newline(_)
\* text.split("\n")
split_newline(s) ==
    LET ends == {k \in 1..Len(s) : s[k] = "\n"}
    IN  IF ends = {} THEN <<s>>
        ELSE LET k == CHOOSE e \in ends : \A f \in ends : e <= f
             IN  <<SubSeq(s, 1, k - 1)>> \o split_newline(SubSeq(s, k + 1, Len(s)))

RECURSIVE join_newline(_)
\* "\n".join(lines)
join_newline(lines) ==
    IF lines = <<>> THEN <<>>
    ELSE IF Len(lines) = 1 THEN lines[1]
    ELSE lines[1] \o <<"\n">> \o join_newline(Tail(lines))

\* text.find(p), counted from 1; 0 when p does not occur
find(s, p) ==
    LET hits == {k \in 1..Len(s) : occurs_at(s, p, k)}
    IN  IF hits = {} THEN 0 ELSE CHOOSE k \in hits : \A h \in hits : k <= h

\* lines 29-30: the first line that holds the marker; 0 when none does
first_line_with(lines, search_marker) ==
    LET hits == {k \in 1..Len(lines) : contains(lines[k], search_marker)}
    IN  IF hits = {} THEN 0 ELSE CHOOSE k \in hits : \A h \in hits : k <= h

RECURSIVE extract_from(_, _, _, _)
\* lines 28-44: the loop over the markers still to try
extract_from(text, lines, search_markers, after) ==
    IF search_markers = <<>> THEN strip(text)
    ELSE LET search_marker == Head(search_markers)
             k == first_line_with(lines, search_marker)
             pos == find(text, search_marker)
         IN  IF k # 0
             THEN IF after
                  THEN strip(join_newline(SubSeq(lines, k + 1, Len(lines))))
                  ELSE strip(join_newline(SubSeq(lines, 1, k - 1)))
             ELSE IF pos # 0
             THEN IF after
                  THEN strip(SubSeq(text, pos + Len(search_marker), Len(text)))
                  ELSE strip(SubSeq(text, 1, pos - 1))
             ELSE extract_from(text, lines, Tail(search_markers), after)

\* extract_detailed_solution(text, after=after, markers=markers)
extract_detailed_solution(text, markers, after) ==
    extract_from(text, split_newline(text), markers, after)

IdleExtract ==
    /\ etext = <<>>
    /\ emarkers = <<MarkerA>>
    /\ eafter = TRUE
    /\ eres = None
    /\ epc = "idle"

InitExtract ==
    /\ etext \in CharTexts(MaxChars)
    /\ emarkers \in MarkerLists
    /\ eafter \in BOOLEAN
    /\ eres = None
    /\ epc = "called"

\* agent.py line 142: dsol = extract_detailed_solution(solution)
Extract ==
    /\ epc = "called"
    /\ eres' = extract_detailed_solution(etext, emarkers, eafter)
    /\ epc' = "done"
    /\ UNCHANGED <<etext, emarkers, eafter>>

\* ------------------------------------------------------------ specifications
Init == InitSolve /\ IdleGen /\ IdleParse /\ IdleDriver /\ IdleMerge /\ IdleExtract

Next ==
    \/ Start /\ UNCHANGED <<genVars, parseVars, driverVars, mergeVars, extractVars>>
    \/ Explore /\ UNCHANGED <<genVars, parseVars, driverVars, mergeVars, extractVars>>
    \/ ExploreRaises /\ UNCHANGED <<genVars, parseVars, driverVars, mergeVars, extractVars>>
    \/ SelfImprove /\ UNCHANGED <<genVars, parseVars, driverVars, mergeVars, extractVars>>
    \/ SelfImproveRaises /\ UNCHANGED <<genVars, parseVars, driverVars, mergeVars, extractVars>>
    \/ VerifyLog /\ UNCHANGED <<genVars, parseVars, driverVars, mergeVars, extractVars>>
    \/ VerifyLogRaises /\ UNCHANGED <<genVars, parseVars, driverVars, mergeVars, extractVars>>
    \/ VerifyCheck /\ UNCHANGED <<genVars, parseVars, driverVars, mergeVars, extractVars>>
    \/ VerifyCheckRaises /\ UNCHANGED <<genVars, parseVars, driverVars, mergeVars, extractVars>>
    \/ InitCounts /\ UNCHANGED <<genVars, parseVars, driverVars, mergeVars, extractVars>>
    \/ LoopHead /\ UNCHANGED <<genVars, parseVars, driverVars, mergeVars, extractVars>>
    \/ HandleInvalid /\ UNCHANGED <<genVars, parseVars, driverVars, mergeVars, extractVars>>
    \/ SkipCorrection /\ UNCHANGED <<genVars, parseVars, driverVars, mergeVars, extractVars>>
    \/ Correct /\ UNCHANGED <<genVars, parseVars, driverVars, mergeVars, extractVars>>
    \/ CorrectRaises /\ UNCHANGED <<genVars, parseVars, driverVars, mergeVars, extractVars>>
    \/ UpdateStreak /\ UNCHANGED <<genVars, parseVars, driverVars, mergeVars, extractVars>>
    \/ TestTermination /\ UNCHANGED <<genVars, parseVars, driverVars, mergeVars, extractVars>>

\* MathAgent.solve
Spec == Init /\ [][Next]_vars

InitG == InitGen /\ IdleSolve /\ IdleParse /\ IdleDriver /\ IdleMerge /\ IdleExtract

NextG ==
    \/ GenerateEnter /\ UNCHANGED <<solveVars, parseVars, driverVars, mergeVars, extractVars>>
    \/ ProviderReturns /\ UNCHANGED <<solveVars, parseVars, driverVars, mergeVars, extractVars>>
    \/ ProviderRaises /\ UNCHANGED <<solveVars, parseVars, driverVars, mergeVars, extractVars>>
    \/ Backoff /\ UNCHANGED <<solveVars, parseVars, driverVars, mergeVars, extractVars>>
    \/ Raise /\ UNCHANGED <<solveVars, parseVars, driverVars, mergeVars, extractVars>>

\* LLMBackend.generate
SpecGen == InitG /\ [][NextG]_vars

InitP == InitParse /\ IdleSolve /\ IdleGen /\ IdleDriver /\ IdleMerge /\ IdleExtract

NextP ==
    \/ Parse /\ UNCHANGED <<solveVars, genVars, driverVars, mergeVars, extractVars>>
    \/ Summarize /\ UNCHANGED <<solveVars, genVars, driverVars, mergeVars, extractVars>>
    \/ VerifyTail /\ UNCHANGED <<solveVars, genVars, driverVars, mergeVars, extractVars>>

\* the verdict classifier and its callers
SpecParse == InitP /\ [][NextP]_vars

InitD == InitDriver /\ IdleGen /\ IdleParse /\ IdleMerge /\ IdleExtract

NextD ==
    \/ CallSolve /\ UNCHANGED <<genVars, parseVars, mergeVars, extractVars>>
    \/ AfterSolve /\ UNCHANGED <<genVars, parseVars, mergeVars, extractVars>>
    \/ SolveRaised /\ UNCHANGED <<genVars, parseVars, mergeVars, extractVars>>
    \/ LoopExhausted /\ UNCHANGED <<genVars, parseVars, mergeVars, extractVars>>
    \/ Report /\ UNCHANGED <<genVars, parseVars, mergeVars, extractVars>>
    \/ AssignField /\ UNCHANGED <<genVars, parseVars, mergeVars, extractVars>>
    \/ Next

\* main: the outer attempt loop around MathAgent.solve
SpecDriver == InitD /\ [][NextD]_vars

InitM == InitMerge /\ IdleSolve /\ IdleGen /\ IdleParse /\ IdleDriver /\ IdleExtract

NextM ==
    \/ Merge /\ UNCHANGED <<solveVars, genVars, parseVars, driverVars, extractVars>>
    \/ MergeAgain /\ UNCHANGED <<solveVars, genVars, parseVars, driverVars, extractVars>>

\* merge_consecutive and its callers
SpecMerge == InitM /\ [][NextM]_vars

InitE ==
    InitExtract /\ IdleSolve /\ IdleGen /\ IdleParse /\ IdleDriver /\ IdleMerge

NextE ==
    \/ Extract /\ UNCHANGED <<solveVars, genVars, parseVars, driverVars, mergeVars>>

\* extract_detailed_solution and its caller
SpecExtract == InitE /\ [][NextE]_vars

\* the configurations with the largest error cap: the loop is cut short by
\* consecutive errors as late as the bounds allow
ReturnConfigs == {c \in Configs : c.max_consecutive_errors = MaxErrors}

\* main with every iteration cap and every streak, when every generation call
\* returns
InitR == InitMain(ReturnConfigs, {VerifierLLM}) /\ IdleGen /\ IdleParse /\ IdleMerge /\ IdleExtract

NextR ==
    \/ CallSolve /\ UNCHANGED <<genVars, parseVars, mergeVars, extractVars>>
    \/ AfterSolve /\ UNCHANGED <<genVars, parseVars, mergeVars, extractVars>>
    \/ LoopExhausted /\ UNCHANGED <<genVars, parseVars, mergeVars, extractVars>>
    \/ Report /\ UNCHANGED <<genVars, parseVars, mergeVars, extractVars>>
    \/ Start /\ UNCHANGED <<genVars, parseVars, driverVars, mergeVars, extractVars>>
    \/ Explore /\ UNCHANGED <<genVars, parseVars, driverVars, mergeVars, extractVars>>
    \/ SelfImprove /\ UNCHANGED <<genVars, parseVars, driverVars, mergeVars, extractVars>>
    \/ VerifyLog /\ UNCHANGED <<genVars, parseVars, driverVars, mergeVars, extractVars>>
    \/ VerifyCheck /\ UNCHANGED <<genVars, parseVars, driverVars, mergeVars, extractVars>>
    \/ InitCounts /\ UNCHANGED <<genVars, parseVars, driverVars, mergeVars, extractVars>>
    \/ LoopHead /\ UNCHANGED <<genVars, parseVars, driverVars, mergeVars, extractVars>>
    \/ HandleInvalid /\ UNCHANGED <<genVars, parseVars, driverVars, mergeVars, extractVars>>
    \/ SkipCorrection /\ UNCHANGED <<genVars, parseVars, driverVars, mergeVars, extractVars>>
    \/ Correct /\ UNCHANGED <<genVars, parseVars, driverVars, mergeVars, extractVars>>
    \/ UpdateStreak /\ UNCHANGED <<genVars, parseVars, driverVars, mergeVars, extractVars>>
    \/ TestTermination /\ UNCHANGED <<genVars, parseVars, driverVars, mergeVars, extractVars>>

\* main and solve, one thread, when no generation call raises
SpecReturns == InitR /\ [][NextR]_vars

\* ------------------------------------------------------------ properties
Required == config.required_consecutive_validations
MaxConsecutiveErrors == config.max_consecutive_errors

AllValid == \A j \in 1..Len(rounds) : rounds[j].valid
AllInvalid == \A j \in 1..Len(rounds) : ~rounds[j].valid
\* every solver call so far returned a non-empty text
SolverNonEmpty ==
    /\ explored # ""
    /\ solution # ""
    /\ \A j \in 1..Len(rounds) : rounds[j].candidate # ""

\* C1: with a solver that returns non-empty text and a verifier that is valid
\* in every round, solve performs exactly required_consecutive_validations
\* verification rounds, issues no generation call after the round that
\* completes the streak, and returns the current candidate.
C1_ReturnsOnceStreakComplete ==
    (SolverNonEmpty /\ AllValid /\ pc # "raised") =>
        /\ Len(rounds) <= Required
        /\ (Len(rounds) = Required => Last(calls) = "verify_check")
        /\ (pc = "done" =>
               /\ result # None
               /\ result = solution
               /\ Len(rounds) = Required)

\* C2: with a verifier that is invalid in every round, solve returns None
\* after no more than max_consecutive_errors invalid verification rounds.
C2_AlwaysInvalidStopsWithinCap ==
    (AllInvalid /\ pc = "done") =>
        /\ result = None
        /\ Len(rounds) <= MaxConsecutiveErrors

\* C3: whenever solve returns a solution, the latest verification round judged
\* exactly that candidate valid, and the last required_consecutive_validations
\* rounds were all valid with no correction between them.
C3_ReturnedSolutionIsVerified ==
    (pc = "done" /\ result # None) =>
        LET n == Len(rounds)
        IN  /\ n >= Required
            /\ rounds[n].valid
            /\ rounds[n].candidate = result
            /\ \A j \in 1..n :
                  j > n - Required =>
                      /\ rounds[j].valid
                      /\ rounds[j].candidate = result
                      /\ (j > n - Required + 1 => ~rounds[j].corrected)

\* C4: solve returns a solution only through the Success transition (lines
\* 95-100): leaving through the empty exploration, the error cap or the
\* iteration cap returns None, never the current candidate.
C4_SolutionOnlyThroughSuccess ==
    pc = "done" =>
        /\ exit \in {"empty", "success", "errors", "iterations"}
        /\ (exit \in {"empty", "errors", "iterations"} => result = None)
        /\ (result # None =>
               /\ exit = "success"
               /\ result = solution
               /\ correct_count >= Required)

\* C4 witness: the iteration cap is exhausted with a non-empty candidate in
\* hand, and None is returned.
C4_Witness ==
    /\ pc = "done"
    /\ exit = "iterations"
    /\ solution \in {"s1", "s2"}
    /\ Len(rounds) >= 2
    /\ result = None

C6_RoundsWithinCap ==
    max_iterations = 0 =>
        /\ Len(rounds) <= config.max_verification_iterations
        /\ (exit = "iterations" => result = None)

\* C6 amended: the loop runs at most max_iter times, max_iter being the
\* max_iterations argument when it is given and not 0 and
\* max_verification_iterations otherwise; with the initial verification that
\* is at most max_iter + 1 verification rounds; exhausting the cap returns None.
C6_IterationCap ==
    /\ i <= max_iter
    /\ Len(rounds) <= i + 1
    /\ Len(rounds) <= max_iter + 1
    /\ (pc # "start" =>
           max_iter = IF max_iterations # 0 THEN max_iterations
                      ELSE config.max_verification_iterations)
    /\ (exit = "iterations" => (result = None /\ i = max_iter))

\* C6 witness: the cap is exhausted after max_iter iterations and
\* max_iter + 1 verification rounds.
C6_Witness ==
    /\ pc = "done"
    /\ exit = "iterations"
    /\ max_iter >= 2
    /\ i = max_iter
    /\ Len(rounds) = max_iter + 1
    /\ result = None

\* C7: an empty initial exploration makes solve return None at once: one
\* generation call, no self-improvement, verification or correction.
C7_EmptyExplorationAborts ==
    explored = "" =>
        /\ pc = "done"
        /\ exit = "empty"
        /\ result = None
        /\ calls = <<"explore">>
        /\ rounds = <<>>

\* C7 witness: the exploration returned the empty text.
C7_Witness == explored = "" /\ pc = "done"

\* the events of a generate call that failed k times and then succeeded
FailedCall(ev) == ev.kind = "call" /\ ~ev.ok
SleepOf(ev, d) == ev.kind = "sleep" /\ ev.value = d

\* C8: when the provider fails k times and then succeeds, k < retry_attempts,
\* generate returns the result of call k+1 after exactly k+1 provider calls
\* and k sleeps of retry_base_delay, doubled each time, each between two
\* consecutive provider calls.
C8_BackoffSchedule ==
    gpc = "returned" =>
        LET k == Cardinality(FailedCalls(events))
        IN  /\ k < retry_attempts
            /\ Len(events) = 2 * k + 1
            /\ Cardinality(ProviderCalls(events)) = k + 1
            /\ Cardinality(Sleeps(events)) = k
            /\ \A j \in 1..k :
                  /\ FailedCall(events[2 * j - 1])
                  /\ events[2 * j].kind = "sleep"
                  /\ events[2 * j].value =
                        (IF j = 1 THEN retry_base_delay
                         ELSE 2 * events[2 * j - 2].value)
            /\ events[2 * k + 1].kind = "call"
            /\ events[2 * k + 1].ok
            /\ events[2 * k + 1].value = returned

\* C8 witness: retry_attempts = 3, two failures, then success.
C8_Witness ==
    /\ gpc = "returned"
    /\ retry_attempts = 3
    /\ Cardinality(FailedCalls(events)) = 2
    /\ SleepOf(events[2], retry_base_delay)
    /\ SleepOf(events[4], 2 * retry_base_delay)

\* C9 as stated, for every retry_attempts >= 0: generate raises exactly when
\* retry_attempts provider calls were made and all failed; it raises the
\* error of the last provider call; nothing is slept after the last attempt.
C9_RaisesLastErrorAlways ==
    /\ (gpc = "raised" =>
           /\ Cardinality(ProviderCalls(events)) = retry_attempts
           /\ Cardinality(FailedCalls(events)) = retry_attempts
           /\ Len(events) > 0
           /\ FailedCall(events[Len(events)])
           /\ raised = events[Len(events)].value)
    /\ (gpc = "returned" => Cardinality(FailedCalls(events)) < retry_attempts)

\* C9 amended: for retry_attempts >= 1 generate raises exactly when
\* retry_attempts provider calls were made and all failed, raises the error
\* of the last call unchanged and sleeps nothing after it; for
\* retry_attempts = 0 it makes no provider call and raises a TypeError.
C9_RaisesLastError ==
    /\ (gpc = "raised" /\ retry_attempts >= 1 =>
           /\ Cardinality(ProviderCalls(events)) = retry_attempts
           /\ Cardinality(FailedCalls(events)) = retry_attempts
           /\ Cardinality(Sleeps(events)) = retry_attempts - 1
           /\ FailedCall(events[Len(events)])
           /\ raised = events[Len(events)].value
           /\ raised \in Errors)
    /\ (gpc = "raised" /\ retry_attempts = 0 =>
           /\ events = <<>>
           /\ raised = TypeError)
    /\ (gpc = "returned" => Cardinality(FailedCalls(events)) < retry_attempts)
    /\ (Cardinality(FailedCalls(events)) >= retry_attempts =>
           gpc \in {"idle", "failed", "raise", "raised"})

\* C9 witness: three attempts, all failed, the last error differs from the
\* first and is the one raised.
C9_Witness ==
    /\ gpc = "raised"
    /\ retry_attempts = 3
    /\ Len(events) = 5
    /\ events[1].value = "e1"
    /\ events[5].value = "e2"
    /\ raised = "e2"

\* C10: every generate call starts with a fresh attempt counter and the
\* initial delay, whatever failed or was slept in earlier calls, and generate
\* changes no configuration value of the backend.
C10_FreshCounterEachCall ==
    /\ [](/\ (gpc \in {"try", "failed"} =>
                 attempt = Cardinality(ProviderCalls(events))
                           - (IF gpc = "failed" THEN 1 ELSE 0))
          /\ (Len(events) >= 2 => SleepOf(events[2], retry_base_delay))
          /\ (gpc = "raised" /\ retry_attempts >= 1 =>
                 Cardinality(ProviderCalls(events)) = retry_attempts))
    /\ [][/\ retry_attempts' = retry_attempts
          /\ retry_base_delay' = retry_base_delay]_vars

\* C10 witness: a second generate call, after a first one whose provider
\* calls all failed, still gets all its attempts and the initial delay.
C10_Witness ==
    /\ ncalls = 2
    /\ earlier_failures = 3
    /\ retry_attempts = 3
    /\ gpc = "raised"
    /\ SleepOf(events[2], retry_base_delay)

\* ------------------------------------------------------------ the classifier
\* x is a VerificationResult: a validity and a bug report
IsVerificationResult(x) ==
    /\ DOMAIN x = {"is_valid", "bug_report"}
    /\ x.is_valid \in BOOLEAN

VerdictOfLine(line) ==
    LET lowered == lower(strip(line))
    IN  IF lowered \in {VERDICT_YES, VERDICT_YES_DOT} THEN "yes"
        ELSE IF lowered \in {VERDICT_NO, VERDICT_NO_DOT} THEN "no"
        ELSE "none"

\* the verdict of the last verdict line of a text, "none" without one
LastVerdict(response) ==
    LET all == splitlines(response)
        verdicts == {k \in 1..Len(all) : VerdictOfLine(all[k]) # "none"}
    IN  IF verdicts = {} THEN "none"
        ELSE VerdictOfLine(all[CHOOSE k \in verdicts : \A j \in verdicts : j <= k])

StartsAndEnds(text, first, last) ==
    /\ startswith(text, first)
    /\ endswith(text, last) \/ endswith(text, last \o <<".">>)

\* C14: when the boundary strategy decides, a match at the start of the text
\* wins over a match at its end: "no" ... "yes" is invalid, "yes" ... "no" is valid.
C14_StartMatchPreferred ==
    (pop = "parse" /\ LastVerdict(ptext) = "none") =>
        LET text == lower(strip(ptext))
        IN  /\ StartsAndEnds(text, NO, YES) => ~pres.is_valid
            /\ StartsAndEnds(text, YES, NO) => pres.is_valid

\* neither a verdict line nor an exact token nor a boundary match decides
NoEarlierMatch(response) ==
    LET text == lower(strip(response))
    IN  /\ LastVerdict(response) = "none"
        /\ text \notin {YES, NO}
        /\ ~startswith(text, YES)
        /\ ~startswith(text, NO)
        /\ \A last \in {YES, YES_DOT, NO, NO_DOT} : ~endswith(text, last)

\* the positions of text where the pattern matches
MatchesOf(pattern, text) ==
    {k \in word_starts(text) : \E literal \in pattern : word_match_at(text, literal, k)}

RECURSIVE Occurrences(_, _, _)
\* the matches of the first j patterns in text, every occurrence counted
Occurrences(patterns, text, j) ==
    IF j = 0 THEN 0
    ELSE Cardinality(MatchesOf(patterns[j], text)) + Occurrences(patterns, text, j - 1)

\* the patterns that match somewhere in text, each counted once
MatchedPatterns(patterns, text) ==
    LET starts == word_starts(text)
    IN  Cardinality({j \in 1..Len(patterns) :
            \E k \in starts : \E literal \in patterns[j] :
                word_match_at(text, literal, k)})

\* what the substring strategy and the ambiguous default make of text
FallsThrough(text) == contains(text, YES) /\ ~contains(text, NO)

\* C15 as stated: when no earlier strategy decides, every occurrence of a
\* lexicon entry is counted; the larger count decides, a tie falls through.
C15_EveryOccurrenceCounted ==
    (pop = "parse" /\ NoEarlierMatch(ptext)) =>
        LET text == lower(strip(ptext))
            positive == Occurrences(positive_patterns, text, Len(positive_patterns))
            negative == Occurrences(negative_patterns, text, Len(negative_patterns))
        IN  /\ positive > negative => pres.is_valid
            /\ negative > positive => ~pres.is_valid
            /\ positive = negative => (pres.is_valid <=> FallsThrough(text))

\* C15, amended: when no earlier strategy decides, the lexicon patterns that
\* match at least once are counted, each once; the larger count decides
\* (valid with an empty bug report, invalid with the text as bug report), a
\* tie falls through to the substring strategy.
C15_MatchedPatternsCounted ==
    (pop = "parse" /\ NoEarlierMatch(ptext)) =>
        LET text == lower(strip(ptext))
            positive == MatchedPatterns(positive_patterns, text)
            negative == MatchedPatterns(negative_patterns, text)
        IN  /\ positive > negative => (pres.is_valid /\ pres.bug_report = <<>>)
            /\ negative > positive => (~pres.is_valid /\ pres.bug_report = ptext)
            /\ positive = negative => (pres.is_valid <=> FallsThrough(text))

\* a text with more positive occurrences than negative ones, but as many
\* positive patterns as negative ones, was classified
C15_Witness ==
    /\ pop = "parse"
    /\ NoEarlierMatch(ptext)
    /\ LET text == lower(strip(ptext))
       IN  /\ Occurrences(positive_patterns, text, Len(positive_patterns))
                > Occurrences(negative_patterns, text, Len(negative_patterns))
           /\ MatchedPatterns(positive_patterns, text)
                = MatchedPatterns(negative_patterns, text)
    /\ ~pres.is_valid

\* the strategies of the classifier, in its order
Strategies == <<"verdict", "exact", "boundary", "keyword", "substring">>

\* what a strategy alone makes of a text: "yes", "no" or "none"
Outcome(strategy, response) ==
    LET text == lower(strip(response))
    IN  CASE strategy = "verdict" -> LastVerdict(response)
          [] strategy = "exact" ->
                IF text = YES THEN "yes" ELSE IF text = NO THEN "no" ELSE "none"
          [] strategy = "boundary" ->
                IF startswith(text, YES) \/ \E w \in {YES, YES_DOT} : endswith(text, w)
                THEN "yes"
                ELSE IF startswith(text, NO) \/ \E w \in {NO, NO_DOT} : endswith(text, w)
                THEN "no"
                ELSE "none"
          [] strategy = "keyword" ->
                LET positive == MatchedPatterns(positive_patterns, text)
                    negative == MatchedPatterns(negative_patterns, text)
                IN  IF positive > negative THEN "yes"
                    ELSE IF negative > positive THEN "no"
                    ELSE "none"
          [] strategy = "substring" ->
                IF contains(text, YES) /\ ~contains(text, NO) THEN "yes"
                ELSE IF contains(text, NO) /\ ~contains(text, YES) THEN "no"
                ELSE "none"

\* what each strategy makes of a text
Outcomes(response) == [k \in 1..Len(Strategies) |-> Outcome(Strategies[k], response)]

\* the first strategy, in the order of Strategies, that matches; 0 without one
WinnerOf(outcomes) ==
    LET matching == {k \in DOMAIN outcomes : outcomes[k] # "none"}
    IN  IF matching = {} THEN 0
        ELSE CHOOSE k \in matching : \A j \in matching : k <= j

Winner(response) == WinnerOf(Outcomes(response))

\* C16: a text is valid only if one of the five strategies matched it
\* positively, and a text none of the five matches is invalid with a bug
\* report that quotes the text.
C16_AmbiguousNeverValid ==
    pop = "parse" =>
        /\ pres.is_valid =>
              \E k \in 1..Len(Strategies) : Outcome(Strategies[k], ptext) = "yes"
        /\ Winner(ptext) = 0 =>
              /\ ~pres.is_valid
              /\ Len(pres.bug_report) > Len(ptext)
              /\ SubSeq(pres.bug_report,
                        Len(pres.bug_report) - Len(ptext) + 1,
                        Len(pres.bug_report)) = ptext

\* a text with a yes and a no inside words, matched by no strategy, was classified
C16_Witness ==
    /\ pop = "parse"
    /\ contains(lower(ptext), YES)
    /\ contains(lower(ptext), NO)
    /\ Winner(ptext) = 0
    /\ ~pres.is_valid

\* the result the claimed order gives
ResultByOrder(response) ==
    LET outcomes == Outcomes(response)
        k == WinnerOf(outcomes)
    IN  IF k = 0 THEN InvalidResult(AMBIGUOUS \o response)
        ELSE IF outcomes[k] = "yes" THEN ValidResult
        ELSE InvalidResult(response)

\* C17: the result is the one of the first strategy that matches in the order
\* verdict line, exact token, boundary, keyword, substring, ambiguous default.
C17_FirstMatchWins == pop = "parse" => pres = ResultByOrder(ptext)

\* a text that starts with "yes" and whose only keyword is negative was
\* classified valid
C17_Witness ==
    /\ pop = "parse"
    /\ Winner(ptext) = 3
    /\ startswith(lower(strip(ptext)), YES)
    /\ Outcome("keyword", ptext) = "no"
    /\ pres.is_valid

\* the confidence the claim gives to a text, in tenths, by the strategy that wins
ClaimedConfidence(response) ==
    LET text == lower(strip(response))
        k == Winner(response)
        positive == MatchedPatterns(positive_patterns, text)
        negative == MatchedPatterns(negative_patterns, text)
        difference == IF positive > negative THEN positive - negative
                      ELSE negative - positive
    IN  CASE k \in {1, 2} -> 10
          [] k = 3 -> IF startswith(text, YES) \/ startswith(text, NO) THEN 9 ELSE 8
          [] k = 4 -> IF 5 + difference < 7 THEN 5 + difference ELSE 7
          [] k = 5 -> 4
          [] k = 0 -> 3

C19_BugReportIffInvalid ==
    pop \in {"parse", "summarize", "verify"} =>
        (pres.bug_report # <<>> <=> ~pres.is_valid)

\* C20: summarize_verification and the verification step return the validity
\* the classifier gives for the decision text alone; an invalid result
\* carries the log as bug report, a valid one is the classifier's result.
C20_LogReplacesReport ==
    pop \in {"summarize", "verify"} =>
        LET decision == parse_verification_response(ptext)
        IN  /\ pres.is_valid = decision.is_valid
            /\ decision.is_valid => pres = decision
            /\ ~decision.is_valid => pres.bug_report = plog

\* an invalid decision was summarized with a log that differs from the
\* report of the classifier
C20_Witness ==
    /\ pop = "summarize"
    /\ ~pres.is_valid
    /\ plog # <<>>
    /\ plog # parse_verification_response(ptext).bug_report
    /\ pres.bug_report = plog

\* the generation call that failed, if the latest one did
CallFailed == last_call.raised # None

\* C24: solve never retries a generation call: an error raised by the
\* exploration, self-improvement, verification or correction call leaves solve
\* as that same error, no generation call follows it, and solve does not
\* return (so the error is not turned into None).
C24_ErrorsPropagate ==
    /\ CallFailed =>
          /\ pc = "raised"
          /\ solve_raised = last_call.raised
          /\ Last(calls) = last_call.kind
          /\ exit = "none"
    /\ pc = "raised" =>
          /\ CallFailed
          /\ last_call.raised \in Errors
    /\ pc # "raised" => solve_raised = None

\* C24 witness: the correction call raised e2, and e2 left solve.
C24_Witness ==
    /\ pc = "raised"
    /\ last_call.kind = "correct"
    /\ last_call.raised = "e2"
    /\ solve_raised = "e2"
    /\ Len(rounds) >= 1

\* the number of rounds at the end of rs that are all valid (all invalid)
TrailingRounds(rs, valid) ==
    Cardinality({k \in 1..Len(rs) : \A j \in k..Len(rs) : rs[j].valid = valid})

\* C26: at every termination test (lines 95 and 102) correct_count is the
\* number of consecutive valid rounds ending at the latest round and
\* error_count the number of consecutive invalid rounds ending at the latest
\* round.
C26_StreaksMatchRounds ==
    pc = "test" =>
        /\ correct_count = TrailingRounds(rounds, TRUE)
        /\ error_count = TrailingRounds(rounds, FALSE)

\* C27: error_count never exceeds max_consecutive_errors, and once it has
\* reached it no further generation call is issued and solve returns None.
C27_ErrorCapStopsAtOnce ==
    /\ [](error_count <= MaxConsecutiveErrors)
    /\ [][error_count >= MaxConsecutiveErrors =>
             /\ calls' = calls
             /\ (pc' = "done" => result' = None)]_vars

\* C28: a correction is issued only when the latest round was invalid; it
\* receives the candidate of that round and, as bug report, the verification
\* log of that round; after a valid round the candidate stays as it is; and
\* a verification round follows every correction before any termination test.
C28_CorrectionOnlyAfterInvalidRound ==
    /\ last_call.kind = "correct" =>
          /\ rounds # <<>>
          /\ ~Last(rounds).valid
          /\ verification.bug_report = verification_log
          /\ last_call.input = <<Last(rounds).candidate, verification_log>>
          /\ (~CallFailed => (pc = "verify_loop" /\ solution = last_call.returned))
    /\ \A j \in 2..Len(rounds) :
          /\ rounds[j].corrected => ~rounds[j - 1].valid
          /\ rounds[j - 1].valid => rounds[j].candidate = rounds[j - 1].candidate
    /\ (rounds # <<>> /\ Last(rounds).valid) => solution = Last(rounds).candidate
    /\ pc \in {"update", "test"} => Last(calls) = "verify_check"
    /\ (pc = "done" /\ exit # "empty") => Last(calls) = "verify_check"

\* C28 witness: a correction answered an invalid round, and the round after it
\* has been verified.
C28_Witness ==
    /\ pc = "test"
    /\ Len(rounds) >= 2
    /\ rounds[Len(rounds)].corrected
    /\ rounds[Len(rounds)].candidate # rounds[Len(rounds) - 1].candidate

\* C30: after a non-empty exploration the output of the self-improvement call
\* becomes the candidate whatever it is, the empty text included, and solve
\* goes on to the initial verification.
C30_ImprovementReplacesCandidate ==
    (last_call.kind = "improve" /\ ~CallFailed) =>
        /\ explored \notin {"", None}
        /\ last_call.input = <<explored>>
        /\ solution = last_call.returned
        /\ pc = "verify_initial"

\* C30 witness: the self-improvement returned the empty text, which is now the
\* candidate under initial verification.
C30_Witness ==
    /\ last_call.kind = "improve"
    /\ last_call.returned = ""
    /\ explored = "s1"
    /\ solution = ""
    /\ pc = "verify_initial"

\* C21 holds while no assignment to config was tried: that error ends main
NoAssignment == assigned = None

\* C21: main starts at most max_runs invocations of solve, one after the
\* other; an invocation that ends in Success is the last one started and its
\* solution is what main reports; and main reports overall failure exactly
\* when all max_runs invocations ended in Failure.
C21_FirstSuccessReported ==
    NoAssignment =>
        /\ Len(attempts) <= max_runs
        /\ run_i <= max_runs
        /\ Len(attempts) \in {run_i - 1, run_i}
        /\ \A j \in 1..Len(attempts) :
              attempts[j].ended = "Success" =>
                  /\ j = Len(attempts)
                  /\ j = run_i
                  /\ dpc \in {"report", "exit"}
                  /\ final_solution = attempts[j].solution
                  /\ (dpc = "exit" => outcome = "solution")
        /\ outcome = "failed" <=>
              /\ dpc = "exit"
              /\ Len(attempts) = max_runs
              /\ \A j \in 1..Len(attempts) : attempts[j].ended = "Failure"

\* the locals of solve as a new call has them
FreshLocals ==
    /\ max_iter = 0
    /\ solution = None
    /\ verification = NoVerification
    /\ correct_count = 0
    /\ error_count = 0
    /\ i = 0
    /\ calls = <<>>
    /\ rounds = <<>>

\* C22: attempts are independent: every invocation of solve starts with its
\* own candidate, streak counters and iteration index, and no step of solve
\* changes the config or the backend references of the agent.
C22_AttemptsIndependent ==
    /\ [](pc = "start" => FreshLocals)
    /\ [][/\ config' = config
          /\ backend' = backend
          /\ verifier_backend' = verifier_backend]_vars

\* C22 witness: a second attempt has counted an invalid round after a first
\* attempt that counted rounds of its own.
C22_Witness ==
    /\ run_i = 2
    /\ Len(attempts) = 1
    /\ pc = "test"
    /\ Len(rounds) = 2
    /\ error_count = 1

\* C23: AgentConfig is immutable: an assignment to a field raises an error and
\* leaves every field as it was, and no step of the agent or of main changes
\* the config.
C23_ConfigFrozen ==
    /\ [](assigned # None => assign_error = FrozenInstanceError)
    /\ [][config' = config]_vars

\* C23 witness: after a failed attempt, an assignment of another value to a
\* field was tried and raised.
C23_Witness ==
    /\ assigned # None
    /\ assign_error = FrozenInstanceError
    /\ config[assigned[1]] # assigned[2]
    /\ Len(attempts) = 1

\* the calls of kind k among cs
CallsOf(cs, k) == {j \in 1..Len(cs) : cs[j] = k}

\* C29: every verification round issues two generation calls, first the log
\* call and then the decision call whose prompt holds the log just returned,
\* both to the verifier backend at verifier_temperature; exploration,
\* self-improvement and correction go to the solver backend at
\* solver_temperature; without a verifier backend the solver backend serves
\* both.
C29_CallsRouted ==
    /\ [](/\ last_call.kind \in {"explore", "improve", "correct"} =>
               /\ last_call.backend = SolverLLM
               /\ last_call.temperature = SolverTemperature
          /\ last_call.kind \in {"verify_log", "verify_check"} =>
               /\ last_call.backend =
                      IF verifier_arg = None THEN SolverLLM ELSE verifier_arg
               /\ last_call.temperature = VerifierTemperature
          /\ Cardinality(CallsOf(calls, "verify_check")) \in
                 {Len(rounds), Len(rounds) + 1}
          /\ Cardinality(CallsOf(calls, "verify_log")) \in
                 {Len(rounds), Len(rounds) + 1}
          /\ (pc \in {"update", "test", "done"} /\ rounds # <<>>) =>
                 /\ Cardinality(CallsOf(calls, "verify_check")) = Len(rounds)
                 /\ Cardinality(CallsOf(calls, "verify_log")) = Len(rounds))
    /\ [][(calls' # calls /\ calls' # <<>>) =>
             /\ last_call.kind = "verify_log" =>
                    /\ last_call'.kind = "verify_check"
                    /\ last_call'.input = <<last_call.returned>>
             /\ last_call'.kind = "verify_check" => last_call.kind = "verify_log"]_vars

\* C29 witness: with no verifier asked for, the decision call of a round after
\* a correction went to the solver backend at verifier_temperature.
C29_Witness ==
    /\ verifier_arg = None
    /\ last_call.kind = "verify_check"
    /\ last_call.backend = SolverLLM
    /\ last_call.temperature = VerifierTemperature
    /\ last_call.input = <<"log2">>
    /\ Len(rounds) = 2
    /\ rounds[2].corrected

\* the contents of turns, in order, joined by blank lines
RECURSIVE JoinAll(_)
JoinAll(turns) ==
    IF turns = <<>> THEN <<>>
    ELSE IF Len(turns) = 1 THEN turns[1].content
    ELSE turns[1].content \o BlankLine \o JoinAll(Tail(turns))

\* the turns of ts that start a run of one role
RunStarts(ts) == {j \in 1..Len(ts) : j = 1 \/ ts[j].role # ts[j - 1].role}

\* no two adjacent turns of ts have the same role
NoAdjacentSameRole(ts) == \A j \in 1..Len(ts) : j \in RunStarts(ts)

\* the turns of the example
ExampleTurns ==
    <<Turn("user", <<"a">>), Turn("user", <<"b">>), Turn("system", <<"c">>)>>
ExampleMerged ==
    <<Turn("user", <<"a", "\n", "\n", "b">>), Turn("system", <<"c">>)>>

\* C25: merge_consecutive keeps the order of the turns and is idempotent: its
\* output has one turn for each run of one role, with the contents of the run
\* joined in order by blank lines, so no two adjacent turns of it have the same
\* role; [user:a, user:b, system:c] becomes [user:"a\n\nb", system:c]; and
\* applied to its own output it returns that output.
C25_MergeIdempotentOrdered ==
    /\ mpc \in {"merged", "remerged"} =>
          /\ NoAdjacentSameRole(merged)
          /\ Len(merged) = Cardinality(RunStarts(conversation))
          /\ \A k \in 1..Len(merged) :
                \E j \in RunStarts(conversation) :
                    /\ Cardinality({h \in RunStarts(conversation) : h <= j}) = k
                    /\ merged[k].role = conversation[j].role
          /\ JoinAll(merged) = JoinAll(conversation)
          /\ (NoAdjacentSameRole(conversation) => merged = conversation)
          /\ (conversation = ExampleTurns => merged = ExampleMerged)
    /\ mpc = "remerged" => remerged = merged

\* C25 witness: the example has been merged, and its output merged again.
C25_Witness ==
    /\ mpc = "remerged"
    /\ conversation = ExampleTurns
    /\ merged = ExampleMerged
    /\ remerged = ExampleMerged

\* the markers of ms, by their place in the list, that occur in text
Occurring(text, ms) == {j \in 1..Len(ms) : find(text, ms[j]) # 0}

\* what C31 says is returned: the text after the first match of the first
\* marker, in list order, that occurs; the full text when none occurs
TextAfterFirstMatch(text, ms) ==
    IF Occurring(text, ms) = {} THEN strip(text)
    ELSE LET j == CHOOSE h \in Occurring(text, ms) :
                      \A g \in Occurring(text, ms) : h <= g
             pos == find(text, ms[j])
         IN  strip(SubSeq(text, pos + Len(ms[j]), Len(text)))

\* C31: extract_detailed_solution returns everything after the first match of
\* the first marker, in list order, that occurs in the candidate, and the full
\* candidate, trimmed, when no marker occurs.
C31_ExtractAfterFirstMatch ==
    (epc = "done" /\ eafter) => eres = TextAfterFirstMatch(etext, emarkers)

\* the generation calls solve may issue with the cap max_iter: exploration and
\* self-improvement, two per verification round, one per correction
MaxCalls == 2 + 2 * (max_iter + 1) + max_iter

\* the cap of the loop of solve (line 48)
EffectiveCap ==
    IF max_iterations # 0 THEN max_iterations
    ELSE config.max_verification_iterations

\* the steps solve has left at most, by its position: eight for each
\* iteration of the loop not yet begun, and those of the current position
SolveSteps ==
    CASE pc = "start" -> 8 * EffectiveCap + 7
      [] pc = "explore" -> 8 * EffectiveCap + 6
      [] pc = "improve" -> 8 * EffectiveCap + 5
      [] pc = "verify_initial" -> 8 * EffectiveCap + 4
      [] pc = "check_initial" -> 8 * EffectiveCap + 3
      [] pc = "init_counts" -> 8 * EffectiveCap + 2
      [] pc = "loop_head" -> 8 * (max_iter - i) + 1
      [] pc = "iteration" -> 8 * (max_iter - i) + 8
      [] pc = "correct" -> 8 * (max_iter - i) + 7
      [] pc = "verify_loop" -> 8 * (max_iter - i) + 6
      [] pc = "check_loop" -> 8 * (max_iter - i) + 5
      [] pc = "update" -> 8 * (max_iter - i) + 4
      [] pc = "test" -> 8 * (max_iter - i) + 3
      [] OTHER -> 0

\* the steps main has left at most: those of the attempts not yet started,
\* those of the current attempt, and its own
MainSteps ==
    (8 * EffectiveCap + 10) * (max_runs - run_i) + SolveSteps
        + (CASE dpc = "solve" -> 3
             [] dpc = "loop" -> 2
             [] dpc = "report" -> 1
             [] OTHER -> 0)

\* the positions of solve from which a step is taken whatever the values are
Running ==
    {"start", "explore", "improve", "verify_initial", "check_initial",
     "init_counts", "loop_head", "iteration", "correct", "verify_loop",
     "check_loop", "update", "test", "done"}

\* C32: when every generation call returns, solve ends after at most max_iter
\* loop iterations, at most max_iter + 1 verification rounds, at most max_iter
\* corrections and so at most 2 + 2 * (max_iter + 1) + max_iter generation
\* calls, and main ends after at most max_runs invocations of solve: every
\* step takes at least one from a count of steps left that never goes below
\* 0, and until main has ended it or solve is at a position that has a step.
C32_Terminates ==
    /\ [](/\ i <= max_iter
          /\ Len(rounds) <= max_iter + 1
          /\ Cardinality(CallsOf(calls, "correct")) <= max_iter
          /\ Len(calls) <= MaxCalls
          /\ run_i <= max_runs
          /\ Len(attempts) <= max_runs
          /\ MainSteps >= 0
          /\ dpc \in {"loop", "solve", "report", "exit"}
          /\ (dpc = "solve" <=> pc \in Running))
    /\ [][MainSteps' < MainSteps]_vars

\* C32 witness: the last of max_runs attempts ended after max_iter
\* iterations, with every call the cap allows issued.
C32_Witness ==
    /\ pc = "done"
    /\ run_i = max_runs
    /\ max_runs = MaxRuns
    /\ max_iter >= 2
    /\ i = max_iter
    /\ Len(rounds) = max_iter + 1
    /\ Cardinality(CallsOf(calls, "correct")) = max_iter
    /\ Len(calls) = MaxCalls

\* C33: solve can succeed only if the cap of its loop is at least
\* required_consecutive_validations - 1: with a smaller cap (max_iterations
\* when given, max_verification_iterations otherwise) solve returns None
\* whatever the solver and the verifier answer.
C33_CapBelowStreakNeverSucceeds ==
    (pc # "start" /\ max_iter < Required - 1) =>
        /\ max_iter = EffectiveCap
        /\ correct_count < Required
        /\ exit # "success"
        /\ (pc = "done" => result = None)

\* C33 witness: the verifier said yes in every round, the cap of 1 is below
\* the streak of 3 less one, and solve returned None.
C33_Witness ==
    /\ pc = "done"
    /\ Required = 3
    /\ max_iter = 1
    /\ AllValid
    /\ Len(rounds) = 2
    /\ solution \in {"s1", "s2"}
    /\ result = None

\* The calls of a sequence that write the candidate.
Rewrites(cs) == {j \in 1..Len(cs) : cs[j] \in {"improve", "correct"}}

\* C34: what solve returns is the output of the self-improvement call or of
\* the latest correction call, never the output of the exploration as such:
\* the candidate is written only by a returning exploration, self-improvement
\* or correction call, the exploration is the first call and the
\* self-improvement the second, a solution is returned only as the candidate
\* of the latest round, and between two rounds the candidate changes only
\* through a correction.
C34_ReturnsLatestRewrite ==
    /\ [](/\ \A j \in 1..Len(calls) :
                /\ calls[j] = "explore" <=> j = 1
                /\ calls[j] = "improve" <=> j = 2
          /\ \A j \in 2..Len(rounds) :
                (rounds[j].candidate # rounds[j - 1].candidate) => rounds[j].corrected
          /\ \A j \in 1..Len(calls) :
                (j >= 4 /\ calls[j] = "verify_log" /\ calls[j - 1] # "verify_check")
                    => calls[j - 1] = "correct"
          /\ (last_call.kind \in {"improve", "correct"} /\ ~CallFailed)
                => solution = last_call.returned
          /\ result # None =>
                /\ exit = "success"
                /\ Rewrites(calls) # {}
                /\ result = solution
                /\ result = Last(rounds).candidate)
    /\ [][/\ solution' # solution =>
                /\ Len(calls') = Len(calls) + 1
                /\ Last(calls') \in {"explore", "improve", "correct"}
                /\ solution' = last_call'.returned
          /\ (calls' # calls /\ Last(calls') \in {"improve", "correct"}) =>
                last_call'.kind = Last(calls')
          /\ result' # result => (result' = None \/ result' = solution)]_vars

\* C34 witness: the exploration and the self-improvement gave "s1", the first
\* round was invalid, the correction gave "s2", and "s2" was returned.
C34_Witness ==
    /\ pc = "done"
    /\ exit = "success"
    /\ explored = "s1"
    /\ rounds[1].candidate = "s1"
    /\ Last(rounds).corrected
    /\ result = "s2"

\* C35: main reports success only with a non-empty solution: when solve
\* returns the empty text the attempt is handled as a failed one, nothing is
\* kept of it, the loop goes on, and failure is reported only after all
\* max_runs attempts were made.
C35_EmptySolutionIsFailure ==
    /\ [](/\ outcome = "solution" => (success /\ Truthy(final_solution))
          /\ success => Truthy(final_solution)
          /\ outcome = "failed" => (~success /\ Len(attempts) = max_runs)
          /\ \A j \in 1..Len(attempts) :
                (attempts[j].solution = "" /\ NoAssignment /\ j = Len(attempts)) =>
                    /\ ~success
                    /\ dpc = "loop" => run_i = j
                    /\ dpc \in {"report", "exit"} => j = max_runs)
    /\ [][(dpc = "solve" /\ pc = "done" /\ result = "" /\ dpc' # "solve") =>
              /\ dpc' = "loop"
              /\ success' = success
              /\ final_solution' = final_solution
              /\ outcome' = outcome]_vars

\* C35 witness: the first attempt ended in Success with the empty text, and a
\* second attempt is under way.
C35_Witness ==
    /\ Len(attempts) = 1
    /\ attempts[1] = Ended("success", "")
    /\ run_i = 2
    /\ dpc = "solve"
    /\ pc = "verify_initial"
    /\ ~success

\* C36: an error raised by a generation call during an attempt leaves solve
\* and the attempt loop of main: the attempt is not counted as a failed one,
\* main reports neither a solution nor failure, and no further attempt is
\* started even when fewer than max_runs attempts were made.
C36_ErrorEndsMain ==
    /\ [](/\ (dpc = "solve" /\ pc = "raised") =>
                (CallFailed /\ solve_raised = last_call.raised /\ result = None)
          /\ \A j \in 1..Len(attempts) :
                attempts[j].ended = "Raised" =>
                    /\ j = Len(attempts)
                    /\ j = run_i
                    /\ dpc = "exit"
                    /\ outcome = "raised"
                    /\ ~success
                    /\ pc = "raised"
          /\ (outcome = "raised" /\ NoAssignment) =>
                (attempts # <<>> /\ Last(attempts).ended = "Raised"))
    /\ [][/\ (dpc = "solve" /\ pc = "raised") =>
                /\ dpc' = "exit"
                /\ outcome' = "raised"
                /\ attempts' = Append(attempts, Ended("raised", None))
          /\ dpc = "exit" => (run_i' = run_i /\ attempts' = attempts /\ dpc' = dpc)
          /\ outcome = "raised" => (outcome' = outcome /\ pc' = pc /\ calls' = calls)]_vars

\* C36 witness: the correction call of the first of two attempts raised, and
\* main ended by that error with the second attempt never started.
C36_Witness ==
    /\ max_runs = 2
    /\ run_i = 1
    /\ attempts = <<Ended("raised", None)>>
    /\ last_call.kind = "correct"
    /\ CallFailed
    /\ NoAssignment
    /\ dpc = "exit"
    /\ outcome = "raised"

====
